---- MODULE Spec2Model ----
(***************************************************************************)
(* Omni-Convert: the POST /api/convert handler of server/routes.ts, its    *)
(* conversion routines and their fallback chains, as a state machine over  *)
(* one conversion job, the files it touches and the response it sends.     *)
(***************************************************************************)
EXTENDS Integers, Sequences, FiniteSets, TLC

(* ---------------------------------------------------------------------- *)
(* Bounds                                                                  *)
(* ---------------------------------------------------------------------- *)

\* largest page count getPdfPageCount reports for an uploaded PDF
MaxPages == 2

\* concurrent requests in flight
NumJobs == 2

\* milliseconds Date.now() advances while the requests are served
MaxClock == 1

\* tokens (words, runs of spaces) a generated input line is made of
MaxTokens == 3

\* lines of the generated many-line texts
MaxLines == 80

\* requests to /api/visit
MaxVisits == 6

\* requests to /api/download/:filename for one converted file
MaxDownloads == 3

\* half minutes that pass while the converted file is watched
MaxHalfMinutes == 4

\* files the user selects on the upload page, one after the other
MaxSelections == 3

\* clicks on Convert
MaxClicks == 3

(* ---------------------------------------------------------------------- *)
(* shared/schema.ts and the format helpers                                 *)
(* ---------------------------------------------------------------------- *)

SUPPORTED_FORMATS == <<"PNG", "JPG", "WEBP", "TIFF", "PDF", "TXT", "WORD">>

IMAGE_FORMATS == <<"PNG", "JPG", "WEBP", "TIFF">>

Range(s) == {s[i] : i \in DOMAIN s}

\* a field of a response that is not set
Absent == "<absent>"

\* a schema that accepts any string
acceptAnyTarget(targetFormat) == TRUE

\* conversionRequestSchema.safeParse({ targetFormat }).success
conversionRequestSchema(targetFormat) == targetFormat \in Range(SUPPORTED_FORMATS)

\* raw targetFormat values a client can put in the form body
RawTargets == Range(SUPPORTED_FORMATS) \cup {"png", "GIF", Absent}

getExtensionFromFormat(format) ==
  CASE format = "PNG"  -> "png"
    [] format = "JPG"  -> "jpg"
    [] format = "WEBP" -> "webp"
    [] format = "TIFF" -> "tiff"
    [] format = "PDF"  -> "pdf"
    [] format = "TXT"  -> "txt"
    [] format = "WORD" -> "docx"

\* String.prototype.toLowerCase / toUpperCase on the tokens of the model
toLowerCase(s) ==
  CASE s = "PNG"  -> "png"
    [] s = "JPG"  -> "jpg"
    [] s = "WEBP" -> "webp"
    [] s = "TIFF" -> "tiff"
    [] s = "DOC"  -> "doc"
    [] OTHER      -> s

toUpperCase(s) ==
  CASE s = "gif"  -> "GIF"
    [] s = "mpeg" -> "MPEG"
    [] s = "png"  -> "PNG"
    [] OTHER      -> s

\* a content type "type/subtype"
Mime(t, s) == [type |-> t, subtype |-> s]

MimePng  == Mime("image", "png")
MimeGif  == Mime("image", "gif")
MimePdf  == Mime("application", "pdf")
MimeTxt  == Mime("text", "plain")
MimeDoc  == Mime("application", "msword")
MimeDocx == Mime("application", "vnd.openxmlformats-officedocument.wordprocessingml.document")
MimeMp3  == Mime("audio", "mpeg")

Mimes == {MimePng, MimeGif, MimePdf, MimeTxt, MimeDoc, MimeDocx, MimeMp3}

getFormatFromMime(mimeType) ==
  CASE mimeType = MimePng  -> "PNG"
    [] mimeType = Mime("image", "jpeg") -> "JPG"
    [] mimeType = Mime("image", "webp") -> "WEBP"
    [] mimeType = Mime("image", "tiff") -> "TIFF"
    [] mimeType = MimePdf  -> "PDF"
    [] mimeType = MimeTxt  -> "TXT"
    [] mimeType = MimeDoc  -> "WORD"
    [] mimeType = MimeDocx -> "WORD"
    [] OTHER -> IF toUpperCase(mimeType.subtype) /= ""
                THEN toUpperCase(mimeType.subtype) ELSE "UNKNOWN"

isWordMime(mimeType) == mimeType = MimeDoc \/ mimeType = MimeDocx

\* mimeType.startsWith("image/")
isImageMime(mimeType) == mimeType.type = "image"

isPdfMime(mimeType) == mimeType = MimePdf

isTextMime(mimeType) == mimeType = MimeTxt

(* ---------------------------------------------------------------------- *)
(* Files: a path is directory, base name and extension                     *)
(* ---------------------------------------------------------------------- *)

Path(d, b, e) == [dir |-> d, base |-> b, ext |-> e]

\* extensions of the uploaded file's original name
Exts == {"doc", "DOC", "docx", "png"}

NoFile == [mimetype |-> Mime("", ""), originalname |-> "", ext |-> "", path |-> Path("", "", "")]

\* multer.diskStorage: uploads/<uniqueSuffix>-<originalname>
storage(mimeType, e) ==
  [mimetype |-> mimeType, originalname |-> "report", ext |-> e,
   path |-> Path("uploads", "1700000000000-42-report", e)]

Uploads == {storage(m, e) : m \in Mimes, e \in Exts}

existsSync(fsys, p) == p \in DOMAIN fsys

\* an unlink that leaves the file in place
unlinkNothing(fsys, p) == fsys

\* a write that completes ("full") or is cut short ("partial")
writeFile(fsys, p, content) ==
  [q \in DOMAIN fsys \cup {p} |-> IF q = p THEN content ELSE fsys[q]]

unlinkSync(fsys, p) == [q \in DOMAIN fsys \ {p} |-> fsys[q]]

renameSync(fsys, from, to) ==
  [q \in (DOMAIN fsys \ {from}) \cup {to} |-> IF q = to THEN fsys[from] ELSE fsys[q]]

\* what a failing writer may leave at its destination: nothing new, or a partial file
FailedWrites(fsys, p) == {fsys, writeFile(fsys, p, "partial")}

(* ---------------------------------------------------------------------- *)
(* State                                                                   *)
(* ---------------------------------------------------------------------- *)

VARIABLES
  cloudConvert,   \* TRUE iff CLOUDCONVERT_API_KEY was set at process start
  req,            \* the request: [file, targetFormat]
  pc,             \* position of the handler
  files,          \* the file system: path -> "full" | "partial"
  row,            \* the decision-table row the handler entered, or "none"
  caller,         \* the routine that awaits convertWithCloudConvert
  attempts,       \* the strategies attempted, in order, with their results
  thrown,         \* the message of the error in flight
  logged,         \* messages written with console.error
  responses,      \* the responses sent with res.json
  inputUnlinks,   \* unlinkSync calls issued on the input path
  pageCount,      \* convertPdfToWordSnapshot: pages of the PDF
  page,           \* convertPdfToWordSnapshot: page being rendered
  imagePaths,     \* convertPdfToWordSnapshot: page images rendered so far
  lastStderr,     \* convertPdfToText: what pdftotext printed when it failed
  remoteCalls,    \* convertWithCloudConvert: the steps taken, with their results
  jobs,           \* concurrent requests: the handler state of each job
  disk,           \* concurrent requests: the directories uploads/ and converted/
  now,            \* concurrent requests: Date.now()
  textPdf,        \* convertTextToPdf: the locals of its wrapping and page loops
  wordPdf,        \* convertWordToPdfBasic: the locals of its wrapping loop
  visitor,        \* the visitor counter: its file and the counts returned
  downloads,      \* GET /api/download: the converted file, its timers and answers
  ui              \* the upload page: the state of Home and its requests in flight

\* the state of one conversion job
jobVars == <<cloudConvert, req, pc, files, row, caller, attempts, thrown, logged,
             responses, inputUnlinks, pageCount, page, imagePaths, lastStderr, remoteCalls>>

\* the state of the server under concurrent requests
serverVars == <<jobs, disk, now>>

\* the state of the layout routines, the counter, the download route and the page
otherVars == <<textPdf, wordPdf, visitor, downloads, ui>>

vars == <<jobVars, serverVars, otherVars>>

\* what the external calls of a job have returned
hist == <<lastStderr, remoteCalls>>

file == req.file
targetFormat == req.targetFormat
hasFile == file /= NoFile

originalFormat == getFormatFromMime(file.mimetype)
outputFilename == file.originalname \o "-converted." \o getExtensionFromFormat(targetFormat)
\* path.join(convertedDir, `${Date.now()}-${outputFilename}`)
outputPath ==
  Path("converted", "1700000000001-" \o file.originalname \o "-converted",
       getExtensionFromFormat(targetFormat))
downloadUrl == "/api/download/" \o outputPath.base \o "." \o outputPath.ext

Init ==
  /\ cloudConvert \in BOOLEAN
  /\ req \in [file : Uploads \cup {NoFile}, targetFormat : RawTargets]
  /\ pc = "start"
  /\ files = [p \in (IF req.file = NoFile THEN {} ELSE {req.file.path}) |-> "full"]
  /\ row = "none"
  /\ caller = "none"
  /\ attempts = <<>>
  /\ thrown = ""
  /\ logged = <<>>
  /\ responses = <<>>
  /\ inputUnlinks = 0
  /\ pageCount = 0
  /\ page = 0
  /\ imagePaths = <<>>
  /\ lastStderr = ""
  /\ remoteCalls = <<>>
  /\ jobs = <<>>
  /\ disk = <<>>
  /\ now = 0
  /\ textPdf = <<>>
  /\ wordPdf = <<>>
  /\ visitor = <<>>
  /\ downloads = <<>>
  /\ ui = <<>>

(* ---------------------------------------------------------------------- *)
(* Messages                                                                *)
(* ---------------------------------------------------------------------- *)

RECURSIVE join(_, _)
\* Array.prototype.join
join(s, sep) ==
  IF s = <<>> THEN ""
  ELSE IF Len(s) = 1 THEN Head(s)
  ELSE Head(s) \o sep \o join(Tail(s), sep)

\* error.message of what the external engines (sharp, pdf-lib, pdf2pic, docx,
\* the cloudconvert client, fs) reject with: some text, or none (an Error
\* without a message, or a rejected value that is not an Error)
RawMsgs == {"", "engine error"}

MsgNoFile == "No file uploaded. Please select a file to convert."
MsgInvalidTarget == "Invalid target format. Supported formats: " \o join(SUPPORTED_FORMATS, ", ")
MsgDefault == "An error occurred during conversion. Please try again with a different file or format."
MsgUnsupportedImage(format) == "Unsupported image format: " \o format
MsgPdfToImage == "Failed to convert PDF to image"
MsgPdfCorrupted == "The PDF file appears to be corrupted or invalid. Please try a different PDF file."
MsgPdfNoText == "Failed to extract text from PDF. Please ensure the PDF contains readable text."
MsgPdfToWordBasic == "Failed to convert PDF to WORD. The PDF may not contain extractable text."
MsgPdfEmpty == "PDF appears to be empty"
MsgRenderPage(k) == "Failed to render page " \o ToString(k)
MsgNoText == "No text content found in the document"
MsgWordToPdfBasic == "Failed to convert WORD to PDF. The document may be corrupted."
MsgNotConfigured == "CloudConvert API key not configured"
MsgNoUploadTask == "Upload task not found"
MsgNoExport == "Export task failed or no output file"
MsgDownload(statusText) == "Failed to download converted file: " \o statusText
MsgCloudFailed(m) == "CloudConvert conversion failed: " \o m
MsgOldDoc == "Cannot convert .doc files without CloudConvert. Please use .docx format or ensure CloudConvert API key is configured."

\* the target formats the "Cannot convert" message names for a source
listedTargets(mimeType) ==
  IF isImageMime(mimeType) THEN IMAGE_FORMATS \o <<"PDF">>
  ELSE IF isPdfMime(mimeType) THEN IMAGE_FORMATS \o <<"TXT", "WORD">>
  ELSE IF isWordMime(mimeType) THEN <<"PDF">>
  ELSE IF isTextMime(mimeType) THEN <<"PDF", "TXT">>
  ELSE <<>>

MsgUnsupported ==
  "Cannot convert " \o originalFormat \o " to " \o targetFormat \o ". " \o
  (IF isImageMime(file.mimetype)
     THEN "Images can be converted to: " \o join(listedTargets(file.mimetype), ", ") \o "."
   ELSE IF isPdfMime(file.mimetype)
     THEN "PDFs can be converted to: " \o join(listedTargets(file.mimetype), ", ") \o "."
   ELSE IF isWordMime(file.mimetype)
     THEN "WORD documents can be converted to: " \o join(listedTargets(file.mimetype), ", ") \o "."
   ELSE IF isTextMime(file.mimetype)
     THEN "Text files can be converted to: " \o join(listedTargets(file.mimetype), ", ") \o "."
   ELSE "This file format is not supported for conversion.")

(* ---------------------------------------------------------------------- *)
(* Responses and the record of attempted strategies                        *)
(* ---------------------------------------------------------------------- *)

ConversionResponse(status, success, filename, url, error, of, tf) ==
  [status |-> status, success |-> success, filename |-> filename, downloadUrl |-> url,
   error |-> error, originalFormat |-> of, targetFormat |-> tf]

SuccessResponse ==
  ConversionResponse(200, TRUE, outputFilename, downloadUrl, Absent,
                     originalFormat, targetFormat)

Begin(att, s) == Append(att, [strategy |-> s, result |-> "running", msg |-> ""])

End(att, r, m) == [att EXCEPT ![Len(att)] = [@ EXCEPT !.result = r, !.msg = m]]

(* ---------------------------------------------------------------------- *)
(* The decision table of POST /api/convert                                 *)
(* ---------------------------------------------------------------------- *)

\* a target test that takes every supported format for an image format
isSupportedTarget(format) == format \in Range(SUPPORTED_FORMATS)

isImageTarget(format) == format \in Range(IMAGE_FORMATS)

\* selectRow with the Word -> WORD branch left out
selectRowWithoutWordCopy(mimeType, format) ==
  IF isImageMime(mimeType) /\ isImageTarget(format) THEN "convertImage"
  ELSE IF isImageMime(mimeType) /\ format = "PDF" THEN "convertImageToPdf"
  ELSE IF isPdfMime(mimeType) /\ isImageTarget(format) THEN "convertPdfToImage"
  ELSE IF isPdfMime(mimeType) /\ format = "TXT" THEN "convertPdfToText"
  ELSE IF isPdfMime(mimeType) /\ format = "WORD" THEN "convertPdfToWord"
  ELSE IF isWordMime(mimeType) /\ format = "PDF" THEN "convertWordToPdf"
  ELSE IF isTextMime(mimeType) /\ format = "PDF" THEN "convertTextToPdf"
  ELSE IF isTextMime(mimeType) /\ format = "TXT" THEN "copyText"
  ELSE "none"

\* the first branch of the handler whose condition holds
selectRow(mimeType, format) ==
  IF isImageMime(mimeType) /\ isImageTarget(format) THEN "convertImage"
  ELSE IF isImageMime(mimeType) /\ format = "PDF" THEN "convertImageToPdf"
  ELSE IF isPdfMime(mimeType) /\ isImageTarget(format) THEN "convertPdfToImage"
  ELSE IF isPdfMime(mimeType) /\ format = "TXT" THEN "convertPdfToText"
  ELSE IF isPdfMime(mimeType) /\ format = "WORD" THEN "convertPdfToWord"
  ELSE IF isWordMime(mimeType) /\ format = "PDF" THEN "convertWordToPdf"
  ELSE IF isWordMime(mimeType) /\ format = "WORD" THEN "copyWord"
  ELSE IF isTextMime(mimeType) /\ format = "PDF" THEN "convertTextToPdf"
  ELSE IF isTextMime(mimeType) /\ format = "TXT" THEN "copyText"
  ELSE "none"

\* a legacy check that looks at the content type only
isOldDocByMimeOnly == file.mimetype = MimeDoc

\* convertWordToPdf: mimeType === "application/msword" || path ends with ".doc"
isOldDoc == file.mimetype = MimeDoc \/ toLowerCase(file.path.ext) = "doc"

\* the remote strategy called without looking at the configuration
remoteAlwaysCalled == TRUE

\* the guard `if (cloudConvert)` of the four routines that prefer the remote service
remoteConfigured == cloudConvert

\* the synchronous start of the local part of routine c, after the remote
\* strategy was skipped or has failed; att is the record of attempts so far
LocalEntry(c, att) ==
  CASE c = "convertImageToPdf" ->
         /\ pc' = "imageToPdf"
         /\ attempts' = Begin(att, "imageToPdf")
         /\ thrown' = thrown
    [] c = "convertPdfToImage" ->
         /\ pc' = "pdf2pic"
         /\ attempts' = Begin(att, "rasterize")
         /\ thrown' = thrown
    [] c = "convertPdfToWord" ->
         /\ pc' = "getPdfPageCount"
         /\ attempts' = Begin(att, "snapshot")
         /\ thrown' = thrown
    [] c = "convertWordToPdf" ->
         IF isOldDoc
           THEN /\ pc' = "catch"
                /\ attempts' = att
                /\ thrown' = MsgOldDoc
           ELSE /\ pc' = "mammoth"
                /\ attempts' = Begin(att, "wordToPdfBasic")
                /\ thrown' = thrown

\* convertWithCloudConvert up to its first await, called by routine c
CloudEntry(c) ==
  IF ~cloudConvert
    THEN \* thrown outside the routine's own try, caught by the caller's try
         /\ logged' = Append(logged, MsgNotConfigured)
         /\ LocalEntry(c, End(Begin(attempts, "remote"), "fail", MsgNotConfigured))
    ELSE /\ pc' = "cc_create"
         /\ attempts' = Begin(attempts, "remote")
         /\ UNCHANGED <<thrown, logged>>

\* a routine with a remote strategy in front of its local ones
ChainEntry(c) ==
  /\ caller' = c
  /\ IF remoteConfigured
       THEN CloudEntry(c)
       ELSE LocalEntry(c, attempts) /\ UNCHANGED logged

\* convertImage up to its await: the switch over the target format
convertImageEntry(format, next) ==
  IF format \in {"PNG", "JPG", "WEBP", "TIFF"}
    THEN /\ pc' = next
         /\ attempts' = Begin(attempts, "imageRecode")
         /\ thrown' = thrown
    ELSE /\ pc' = "catch"
         /\ attempts' = attempts
         /\ thrown' = MsgUnsupportedImage(format)

\* a routine with a single local strategy
SingleEntry(s, next) ==
  /\ pc' = next
  /\ attempts' = Begin(attempts, s)
  /\ thrown' = thrown

RowEntry(r) ==
  CASE r = "convertImage" ->
         convertImageEntry(targetFormat, "sharp_toFile") /\ UNCHANGED <<caller, logged>>
    [] r \in {"convertImageToPdf", "convertPdfToImage", "convertPdfToWord", "convertWordToPdf"} ->
         ChainEntry(r)
    [] r = "convertPdfToText" ->
         SingleEntry("pdfToText", "pdftotext") /\ UNCHANGED <<caller, logged>>
    [] r = "convertTextToPdf" ->
         SingleEntry("textToPdf", "textToPdf") /\ UNCHANGED <<caller, logged>>
    [] r \in {"copyWord", "copyText"} ->
         SingleEntry("passthrough", "copyFile") /\ UNCHANGED <<caller, logged>>

\* app.post("/api/convert"): from the request to the first await of the row
PostConvert ==
  /\ pc = "start"
  /\ UNCHANGED <<cloudConvert, req, pageCount, page, imagePaths, hist, serverVars, otherVars>>
  /\ IF ~hasFile
       THEN /\ responses' = Append(responses,
                 ConversionResponse(400, FALSE, Absent, Absent, MsgNoFile, Absent, Absent))
            /\ pc' = "done"
            /\ UNCHANGED <<files, row, caller, attempts, thrown, logged, inputUnlinks>>
     ELSE IF ~conversionRequestSchema(targetFormat)
       THEN /\ files' = unlinkSync(files, file.path)
            /\ inputUnlinks' = inputUnlinks + 1
            /\ responses' = Append(responses,
                 ConversionResponse(400, FALSE, Absent, Absent, MsgInvalidTarget, Absent, Absent))
            /\ pc' = "done"
            /\ UNCHANGED <<row, caller, attempts, thrown, logged>>
     ELSE IF selectRow(file.mimetype, targetFormat) = "none"
       THEN /\ files' = unlinkSync(files, file.path)
            /\ inputUnlinks' = inputUnlinks + 1
            /\ responses' = Append(responses,
                 ConversionResponse(400, FALSE, Absent, Absent, MsgUnsupported,
                                    originalFormat, targetFormat))
            /\ pc' = "done"
            /\ UNCHANGED <<row, caller, attempts, thrown, logged>>
     ELSE /\ row' = selectRow(file.mimetype, targetFormat)
          /\ RowEntry(row')
          /\ UNCHANGED <<files, responses, inputUnlinks>>

\* the tail of every row: fs.unlinkSync(file.path); return res.json({success: true, ...})
\* a row that answers without unlinking the upload
RowDoneWithoutUnlink ==
  /\ pc = "rowDone"
  /\ responses' = Append(responses, SuccessResponse)
  /\ pc' = "done"
  /\ UNCHANGED <<cloudConvert, req, row, caller, attempts, thrown, logged, files,
                 inputUnlinks, pageCount, page, imagePaths, hist, serverVars, otherVars>>

RowDone ==
  /\ pc = "rowDone"
  /\ files' = unlinkSync(files, file.path)
  /\ inputUnlinks' = inputUnlinks + 1
  /\ responses' = Append(responses, SuccessResponse)
  /\ pc' = "done"
  /\ UNCHANGED <<cloudConvert, req, row, caller, attempts, thrown, logged,
                 pageCount, page, imagePaths, hist, serverVars, otherVars>>

\* error.message passed on as it is
errorMessageAsThrown(m) == m

\* error?.message || "An error occurred ..."
errorMessage(m) == IF m /= "" THEN m ELSE MsgDefault

\* a catch block that leaves the uploaded file in place
CatchKeepsInput ==
  /\ pc = "catch"
  /\ logged' = Append(logged, thrown)
  /\ responses' = Append(responses,
       ConversionResponse(500, FALSE, Absent, Absent, errorMessage(thrown), Absent, Absent))
  /\ pc' = "done"
  /\ UNCHANGED <<cloudConvert, req, row, caller, attempts, thrown, pageCount, page,
                 imagePaths, files, inputUnlinks, hist, serverVars, otherVars>>

\* a catch block that reports the first failure of the chain
CatchReportsFirstFailure ==
  /\ pc = "catch"
  /\ logged' = Append(logged, thrown)
  /\ IF hasFile /\ existsSync(files, file.path)
       THEN /\ files' = unlinkSync(files, file.path)
            /\ inputUnlinks' = inputUnlinks + 1
       ELSE UNCHANGED <<files, inputUnlinks>>
  /\ responses' = Append(responses,
       ConversionResponse(500, FALSE, Absent, Absent,
         errorMessage(IF attempts /= <<>> THEN attempts[1].msg ELSE thrown),
         Absent, Absent))
  /\ pc' = "done"
  /\ UNCHANGED <<cloudConvert, req, row, caller, attempts, thrown, pageCount, page,
                 imagePaths, hist, serverVars, otherVars>>

\* the catch block of the handler
Catch ==
  /\ pc = "catch"
  /\ logged' = Append(logged, thrown)
  /\ IF hasFile /\ existsSync(files, file.path)
       THEN /\ files' = unlinkSync(files, file.path)
            /\ inputUnlinks' = inputUnlinks + 1
       ELSE UNCHANGED <<files, inputUnlinks>>
  /\ responses' = Append(responses,
       ConversionResponse(500, FALSE, Absent, Absent, errorMessage(thrown), Absent, Absent))
  /\ pc' = "done"
  /\ UNCHANGED <<cloudConvert, req, row, caller, attempts, thrown, pageCount, page,
                 imagePaths, hist, serverVars, otherVars>>

(* ---------------------------------------------------------------------- *)
(* Leaving a strategy                                                      *)
(* ---------------------------------------------------------------------- *)

\* the strategy in progress resolves: its routine returns to the handler
Succeed ==
  /\ attempts' = End(attempts, "ok", "")
  /\ pc' = "rowDone"
  /\ UNCHANGED <<thrown, logged>>

\* a rejection that no handler catches: the job ends without a response
ThrowEscapes(m) ==
  /\ attempts' = End(attempts, "fail", m)
  /\ thrown' = m
  /\ pc' = "done"
  /\ UNCHANGED logged

\* the strategy in progress rejects with message m and no routine catches it
Throw(m) ==
  /\ attempts' = End(attempts, "fail", m)
  /\ thrown' = m
  /\ pc' = "catch"
  /\ UNCHANGED logged

frame == <<cloudConvert, req, row, caller, responses, inputUnlinks, serverVars,
          otherVars>>
snapFrame == <<pageCount, page, imagePaths>>

(* ---------------------------------------------------------------------- *)
(* convertImage                                                            *)
(* ---------------------------------------------------------------------- *)

\* await sharpInstance.toFile(outputPath), called for the Image -> image row
convertImage ==
  /\ pc = "sharp_toFile"
  /\ \/ /\ files' = writeFile(files, outputPath, "full")
        /\ Succeed
     \/ \E m \in RawMsgs, f \in FailedWrites(files, outputPath) :
          /\ files' = f
          /\ Throw(m)
  /\ UNCHANGED <<hist, frame, snapFrame>>

(* ---------------------------------------------------------------------- *)
(* convertWithCloudConvert                                                 *)
(* ---------------------------------------------------------------------- *)

\* a caller without a try around the remote strategy: the failure goes to the handler
CloudFailWithoutFallback(m) ==
  /\ logged' = Append(logged, m)
  /\ attempts' = End(attempts, "fail", MsgCloudFailed(m))
  /\ thrown' = MsgCloudFailed(m)
  /\ pc' = "catch"

\* the routine's catch wraps the failure m; the caller's catch logs it and
\* goes on with its local strategy
CloudFail(m) ==
  /\ logged' = logged \o <<m, MsgCloudFailed(m)>>
  /\ LocalEntry(caller, End(attempts, "fail", MsgCloudFailed(m)))

\* one step of the remote strategy, and whether it went through
call(step, ok) == [step |-> step, ok |-> ok]

\* await cloudConvert.jobs.create(...); job.tasks.find(upload-file)
ccCreate ==
  /\ pc = "cc_create"
  /\ \/ /\ \E m \in RawMsgs : CloudFail(m)
        /\ remoteCalls' = Append(remoteCalls, call("create", FALSE))
     \/ /\ CloudFail(MsgNoUploadTask)
        /\ remoteCalls' = remoteCalls \o <<call("create", TRUE), call("upload", FALSE)>>
     \/ /\ pc' = "cc_upload"
        /\ remoteCalls' = Append(remoteCalls, call("create", TRUE))
        /\ UNCHANGED <<attempts, thrown, logged>>
  /\ UNCHANGED <<lastStderr, frame, snapFrame, files>>

\* await cloudConvert.tasks.upload(uploadTask, inputStream, ...)
ccUpload ==
  /\ pc = "cc_upload"
  /\ \/ /\ \E m \in RawMsgs : CloudFail(m)
        /\ remoteCalls' = Append(remoteCalls, call("upload", FALSE))
     \/ /\ pc' = "cc_wait"
        /\ remoteCalls' = Append(remoteCalls, call("upload", TRUE))
        /\ UNCHANGED <<attempts, thrown, logged>>
  /\ UNCHANGED <<lastStderr, frame, snapFrame, files>>

\* await cloudConvert.jobs.wait(job.id); completedJob.tasks.find(export/url)
ccWait ==
  /\ pc = "cc_wait"
  /\ \/ /\ \E m \in RawMsgs : CloudFail(m)
        /\ remoteCalls' = Append(remoteCalls, call("wait", FALSE))
     \/ /\ CloudFail(MsgNoExport)
        /\ remoteCalls' = remoteCalls \o <<call("wait", TRUE), call("export", FALSE)>>
     \/ /\ pc' = "cc_fetch"
        /\ remoteCalls' = remoteCalls \o <<call("wait", TRUE), call("export", TRUE)>>
        /\ UNCHANGED <<attempts, thrown, logged>>
  /\ UNCHANGED <<lastStderr, frame, snapFrame, files>>

\* a download whose status is not looked at
ccFetchIgnoringStatus ==
  /\ pc = "cc_fetch"
  /\ \/ /\ \E m \in RawMsgs : CloudFail(m)
        /\ remoteCalls' = Append(remoteCalls, call("fetch", FALSE))
     \/ /\ pc' = "cc_write"
        /\ \E ok \in BOOLEAN : remoteCalls' = Append(remoteCalls, call("fetch", ok))
        /\ UNCHANGED <<attempts, thrown, logged>>
  /\ UNCHANGED <<lastStderr, frame, snapFrame, files>>

\* await fetch(fileUrl); response.ok
ccFetch ==
  /\ pc = "cc_fetch"
  /\ \/ /\ \E m \in RawMsgs \cup {MsgDownload("Not Found")} : CloudFail(m)
        /\ remoteCalls' = Append(remoteCalls, call("fetch", FALSE))
     \/ /\ pc' = "cc_write"
        /\ remoteCalls' = Append(remoteCalls, call("fetch", TRUE))
        /\ UNCHANGED <<attempts, thrown, logged>>
  /\ UNCHANGED <<lastStderr, frame, snapFrame, files>>

\* await response.arrayBuffer(); fs.writeFileSync(outputPath, ...)
ccWrite ==
  /\ pc = "cc_write"
  /\ \/ /\ files' = writeFile(files, outputPath, "full")
        /\ remoteCalls' = Append(remoteCalls, call("write", TRUE))
        /\ Succeed
     \/ \E m \in RawMsgs, f \in FailedWrites(files, outputPath) :
          /\ files' = f
          /\ remoteCalls' = Append(remoteCalls, call("write", FALSE))
          /\ CloudFail(m)
  /\ UNCHANGED <<lastStderr, frame, snapFrame>>

(* ---------------------------------------------------------------------- *)
(* convertPdfToImage (local part)                                          *)
(* ---------------------------------------------------------------------- *)

\* pdf2pic: savePath/saveFilename.<page>.<format>
tempPagePath == Path("converted", "temp-pdf-page.1", toLowerCase(targetFormat))

\* await convert(1), then the rename or the call of convertImage
pdf2pic ==
  /\ pc = "pdf2pic"
  /\ \/ \E m \in RawMsgs \cup {MsgPdfToImage} :
          /\ files' = files
          /\ Throw(m)
     \/ IF targetFormat = "PNG" \/ targetFormat = "JPG"
          THEN /\ files' = renameSync(writeFile(files, tempPagePath, "full"),
                                      tempPagePath, outputPath)
               /\ Succeed
          ELSE /\ files' = writeFile(files, tempPagePath, "full")
               /\ IF targetFormat \in {"PNG", "JPG", "WEBP", "TIFF"}
                    THEN /\ pc' = "pdf_recode"
                         /\ UNCHANGED <<attempts, thrown, logged>>
                    ELSE Throw(MsgUnsupportedImage(targetFormat))
  /\ UNCHANGED <<hist, frame, snapFrame>>

\* await convertImage(result.path, outputPath, targetFormat); fs.unlinkSync(result.path)
pdfRecode ==
  /\ pc = "pdf_recode"
  /\ \/ /\ files' = unlinkSync(writeFile(files, outputPath, "full"), tempPagePath)
        /\ Succeed
     \/ \E m \in RawMsgs, f \in FailedWrites(files, outputPath) :
          /\ files' = f
          /\ Throw(m)
  /\ UNCHANGED <<hist, frame, snapFrame>>

(* ---------------------------------------------------------------------- *)
(* convertPdfToText                                                        *)
(* ---------------------------------------------------------------------- *)

\* outputs of pdftotext on stderr in which "Syntax Error" occurs
SyntaxErrorOutputs ==
  {"Syntax Error: Couldn't find trailer dictionary",
   "Syntax Warning: Invalid Font Weight; Syntax Error (4096): Dictionary key must be a name object"}

\* what pdftotext prints on stderr when it fails
Stderrs ==
  SyntaxErrorOutputs \cup
    {"", "I/O Error: Couldn't open file", "Syntax Warning: Invalid Font Weight"}

\* error.stderr.includes("Syntax Error")
includesSyntaxError(stderr) == stderr \in SyntaxErrorOutputs

\* a catch that rethrows what the extractor printed
pdfToTextRawError(stderr) == stderr

pdfToTextMessage(stderr) ==
  IF stderr /= "" /\ includesSyntaxError(stderr) THEN MsgPdfCorrupted ELSE MsgPdfNoText

\* await execAsync(`pdftotext "${inputPath}" "${outputPath}"`)
convertPdfToText ==
  /\ pc = "pdftotext"
  /\ \/ /\ files' = writeFile(files, outputPath, "full")
        /\ Succeed
        /\ UNCHANGED lastStderr
     \/ \E stderr \in Stderrs, f \in FailedWrites(files, outputPath) :
          /\ files' = f
          /\ lastStderr' = stderr
          /\ Throw(pdfToTextMessage(stderr))
  /\ UNCHANGED <<remoteCalls, frame, snapFrame>>

(* ---------------------------------------------------------------------- *)
(* convertPdfToWord: convertPdfToWordSnapshot, then convertPdfToWordBasic  *)
(* ---------------------------------------------------------------------- *)

\* pdf2pic: savePath/pdf-snapshot-<Date.now()>.<page>.png
snapshotPath(k) == Path("converted", "pdf-snapshot-1700000000002." \o ToString(k), "png")

\* a finally block that unlinks nothing
unlinkNone(fsys, paths) == fsys

\* finally: unlink every path of imagePaths that exists
unlinkAll(fsys, paths) == [q \in DOMAIN fsys \ Range(paths) |-> fsys[q]]

\* convertPdfToWord without a try around the snapshot strategy
SnapshotFailWithoutFallback(m) ==
  /\ logged' = logged
  /\ attempts' = End(attempts, "fail", m)
  /\ thrown' = m
  /\ pc' = "catch"

\* a convertPdfToWord that answers a failed snapshot by trying the snapshot again
SnapshotFailRetries(m) ==
  /\ logged' = Append(logged, m)
  /\ attempts' = Begin(End(attempts, "fail", m), "snapshot")
  /\ pc' = "getPdfPageCount"
  /\ UNCHANGED thrown

\* the snapshot strategy rejects with m: convertPdfToWord logs it and calls
\* convertPdfToWordBasic, which runs up to its first await
SnapshotFail(m) ==
  /\ logged' = Append(logged, m)
  /\ attempts' = Begin(End(attempts, "fail", m), "pdfToWordBasic")
  /\ pc' = "pdftotext_layout"
  /\ UNCHANGED thrown

\* await getPdfPageCount(inputPath); if (pageCount === 0) throw
getPdfPageCount ==
  /\ pc = "getPdfPageCount"
  /\ \/ /\ \E m \in RawMsgs \cup {MsgPdfEmpty} : SnapshotFail(m)
        /\ UNCHANGED snapFrame
     \/ \E n \in 1..MaxPages :
          /\ pageCount' = n
          /\ page' = 1
          /\ imagePaths' = <<>>
          /\ pc' = "snap_render"
          /\ UNCHANGED <<attempts, thrown, logged>>
  /\ UNCHANGED <<hist, frame, files>>

\* one turn of the render loop: await convert(page)
renderPage ==
  /\ pc = "snap_render"
  /\ \/ /\ \E m \in RawMsgs \cup {MsgRenderPage(page)} : SnapshotFail(m)
        /\ files' = unlinkAll(files, imagePaths)
        /\ UNCHANGED snapFrame
     \/ /\ files' = writeFile(files, snapshotPath(page), "full")
        /\ imagePaths' = Append(imagePaths, snapshotPath(page))
        /\ IF page < pageCount
             THEN page' = page + 1 /\ pc' = "snap_render"
             ELSE page' = page /\ pc' = "snap_build"
        /\ UNCHANGED <<pageCount, attempts, thrown, logged>>
  /\ UNCHANGED <<hist, frame>>

\* read and embed the page images, Packer.toBuffer, writeFileSync, finally
buildSnapshotDocument ==
  /\ pc = "snap_build"
  /\ \/ /\ files' = unlinkAll(writeFile(files, outputPath, "full"), imagePaths)
        /\ Succeed
     \/ \E m \in RawMsgs, f \in FailedWrites(files, outputPath) :
          /\ files' = unlinkAll(f, imagePaths)
          /\ SnapshotFail(m)
  /\ UNCHANGED <<hist, frame, snapFrame>>

tempTxtPath == Path(file.path.dir, file.path.base \o "." \o file.path.ext, "txt")

unlinkIfExists(fsys, p) == IF existsSync(fsys, p) THEN unlinkSync(fsys, p) ELSE fsys

\* a strategy whose own catch logs the failure and rejects with its own message m
ThrowWrapped(inner, m) ==
  /\ logged' = Append(logged, inner)
  /\ attempts' = End(attempts, "fail", m)
  /\ thrown' = m
  /\ pc' = "catch"

\* await execAsync(`pdftotext -layout -nopgbrk ...`)
pdftotextLayout ==
  /\ pc = "pdftotext_layout"
  /\ \/ /\ files' = writeFile(files, tempTxtPath, "full")
        /\ pc' = "basic_pack"
        /\ UNCHANGED <<attempts, thrown, logged>>
     \/ \E m \in RawMsgs, f \in FailedWrites(files, tempTxtPath) :
          /\ files' = unlinkIfExists(f, tempTxtPath)
          /\ ThrowWrapped(m, MsgPdfToWordBasic)
  /\ UNCHANGED <<hist, frame, snapFrame>>

\* readFileSync, await Packer.toBuffer(doc), writeFileSync, unlink of the text file
packBasicDocument ==
  /\ pc = "basic_pack"
  /\ \/ /\ files' = unlinkIfExists(writeFile(files, outputPath, "full"), tempTxtPath)
        /\ Succeed
     \/ \E m \in RawMsgs, f \in FailedWrites(files, outputPath) :
          /\ files' = unlinkIfExists(f, tempTxtPath)
          /\ ThrowWrapped(m, MsgPdfToWordBasic)
  /\ UNCHANGED <<hist, frame, snapFrame>>

(* ---------------------------------------------------------------------- *)
(* convertWordToPdfBasic                                                   *)
(* ---------------------------------------------------------------------- *)

\* values of mammoth.extractRawText
Texts == {"", "  ", "Hello"}

trim(text) == IF text = "  " THEN "" ELSE text

\* !text || text.trim().length === 0
isBlank(text) == text = "" \/ trim(text) = ""

\* await mammoth.extractRawText({ path: inputPath })
extractRawText ==
  /\ pc = "mammoth"
  /\ \/ \E m \in RawMsgs : ThrowWrapped(m, MsgWordToPdfBasic)
     \/ \E text \in Texts :
          IF isBlank(text)
            THEN ThrowWrapped(MsgNoText, MsgWordToPdfBasic)
            ELSE /\ pc' = "w2p_save"
                 /\ UNCHANGED <<attempts, thrown, logged>>
  /\ UNCHANGED <<hist, frame, snapFrame, files>>

\* the layout, await pdfDoc.save(), fs.writeFileSync(outputPath, pdfBytes)
saveWordPdf ==
  /\ pc = "w2p_save"
  /\ \/ /\ files' = writeFile(files, outputPath, "full")
        /\ Succeed
     \/ \E m \in RawMsgs, f \in FailedWrites(files, outputPath) :
          /\ files' = f
          /\ ThrowWrapped(m, MsgWordToPdfBasic)
  /\ UNCHANGED <<hist, frame, snapFrame>>

(* ---------------------------------------------------------------------- *)
(* convertImageToPdf (local part), convertTextToPdf, passthrough           *)
(* ---------------------------------------------------------------------- *)

\* sharp metadata and png buffer, embedPng, save, fs.writeFileSync
convertImageToPdf ==
  /\ pc = "imageToPdf"
  /\ \/ /\ files' = writeFile(files, outputPath, "full")
        /\ Succeed
     \/ \E m \in RawMsgs, f \in FailedWrites(files, outputPath) :
          /\ files' = f
          /\ Throw(m)
  /\ UNCHANGED <<hist, frame, snapFrame>>

\* readFileSync, wrapping, pagination, save, fs.writeFileSync
convertTextToPdf ==
  /\ pc = "textToPdf"
  /\ \/ /\ files' = writeFile(files, outputPath, "full")
        /\ Succeed
     \/ \E m \in RawMsgs, f \in FailedWrites(files, outputPath) :
          /\ files' = f
          /\ Throw(m)
  /\ UNCHANGED <<hist, frame, snapFrame>>

\* fs.copyFileSync(file.path, outputPath)
copyFileSync ==
  /\ pc = "copyFile"
  /\ \/ /\ files' = writeFile(files, outputPath, files[file.path])
        /\ Succeed
     \/ \E m \in RawMsgs, f \in FailedWrites(files, outputPath) :
          /\ files' = f
          /\ Throw(m)
  /\ UNCHANGED <<hist, frame, snapFrame>>

(* ---------------------------------------------------------------------- *)
(* Specification                                                           *)
(* ---------------------------------------------------------------------- *)

Next ==
  \/ PostConvert
  \/ RowDone
  \/ Catch
  \/ convertImage
  \/ ccCreate
  \/ ccUpload
  \/ ccWait
  \/ ccFetch
  \/ ccWrite
  \/ pdf2pic
  \/ pdfRecode
  \/ convertPdfToText
  \/ getPdfPageCount
  \/ renderPage
  \/ buildSnapshotDocument
  \/ pdftotextLayout
  \/ packBasicDocument
  \/ extractRawText
  \/ saveWordPdf
  \/ convertImageToPdf
  \/ convertTextToPdf
  \/ copyFileSync

Spec == Init /\ [][Next]_vars

\* every pending await settles: the codec, the PDF tools, the remote job and
\* the download eventually return or fail
FairSpec == Spec /\ WF_vars(Next)

(* ---------------------------------------------------------------------- *)
(* Vocabulary of the properties                                            *)
(* ---------------------------------------------------------------------- *)

\* the source kind the handler's predicates assign to a content type
sourceKind(mimeType) ==
  IF isImageMime(mimeType) THEN "Image"
  ELSE IF isPdfMime(mimeType) THEN "Pdf"
  ELSE IF isWordMime(mimeType) THEN "WordDocument"
  ELSE IF isTextMime(mimeType) THEN "PlainText"
  ELSE "Unknown"

SevenFormats == {"PNG", "JPG", "WEBP", "TIFF", "PDF", "TXT", "WORD"}

ImageTargets == {"PNG", "JPG", "WEBP", "TIFF"}

\* the nine rows of the decision table, as (source kind, target) -> routine
DecisionTable ==
  [p \in ({"Image"} \X ImageTargets) \cup {<<"Image", "PDF">>}
         \cup ({"Pdf"} \X ImageTargets) \cup {<<"Pdf", "TXT">>, <<"Pdf", "WORD">>}
         \cup {<<"WordDocument", "PDF">>, <<"WordDocument", "WORD">>}
         \cup {<<"PlainText", "PDF">>, <<"PlainText", "TXT">>} |->
     CASE p[1] = "Image" /\ p[2] \in ImageTargets -> "convertImage"
       [] p[1] = "Image" /\ p[2] = "PDF" -> "convertImageToPdf"
       [] p[1] = "Pdf" /\ p[2] \in ImageTargets -> "convertPdfToImage"
       [] p[1] = "Pdf" /\ p[2] = "TXT" -> "convertPdfToText"
       [] p[1] = "Pdf" /\ p[2] = "WORD" -> "convertPdfToWord"
       [] p[1] = "WordDocument" /\ p[2] = "PDF" -> "convertWordToPdf"
       [] p[1] = "WordDocument" /\ p[2] = "WORD" -> "copyWord"
       [] p[1] = "PlainText" /\ p[2] = "PDF" -> "convertTextToPdf"
       [] p[1] = "PlainText" /\ p[2] = "TXT" -> "copyText"]

\* the rows whose chain starts with the remote strategy, and their first local strategy
RemoteRows == {"convertImageToPdf", "convertPdfToImage", "convertPdfToWord", "convertWordToPdf"}

LocalOnlyRows == {"convertImage", "convertPdfToText", "copyWord", "convertTextToPdf", "copyText"}

FirstLocalStrategy(r) ==
  CASE r = "convertImageToPdf" -> "imageToPdf"
    [] r = "convertPdfToImage" -> "rasterize"
    [] r = "convertPdfToWord" -> "snapshot"
    [] r = "convertWordToPdf" -> "wordToPdfBasic"

Done == pc = "done"
Dispatched == pc /= "start" /\ hasFile /\ targetFormat \in SevenFormats
RemoteFailed ==
  attempts /= <<>> /\ attempts[1].strategy = "remote" /\ attempts[1].result = "fail"
Failed == Done /\ ~responses[1].success
LegacyDocRow == row = "convertWordToPdf" /\ isOldDoc

(* ---------------------------------------------------------------------- *)
(* Properties                                                              *)
(* ---------------------------------------------------------------------- *)

RemoteFailureAlwaysFallsBack ==
  RemoteFailed =>
    /\ Len(attempts) >= 2
    /\ attempts[2].strategy = FirstLocalStrategy(row)

\* every message the remote strategy can reject with
RemoteFailureMessages ==
  {MsgCloudFailed(m) : m \in RawMsgs \cup {MsgNoUploadTask, MsgNoExport, MsgDownload("Not Found")}}

\* C2 amended: once the remote strategy has failed, the first local strategy
\* of the same row is attempted before any failure is reported, except for a
\* legacy .doc input with target PDF, where no local strategy is attempted
\* and the reported failure is the ".doc needs CloudConvert" message; in no
\* case is the remote failure the reported outcome.
RemoteFailureFallsBackUnlessLegacyDoc ==
  /\ (RemoteFailed /\ ~LegacyDocRow) =>
       /\ Len(attempts) >= 2
       /\ attempts[2].strategy = FirstLocalStrategy(row)
  /\ (RemoteFailed /\ LegacyDocRow) =>
       /\ Len(attempts) = 1
       /\ pc \in {"catch", "done"} /\ thrown = MsgOldDoc
       /\ Done => responses[1].error = MsgOldDoc
  /\ \A i \in DOMAIN responses : responses[i].error \notin RemoteFailureMessages

\* C2 witness: the remote strategy failed, the local one was attempted and
\* failed as well, and the failure was then reported
WitnessFallbackAfterRemoteFailure ==
  /\ Failed /\ RemoteFailed
  /\ row = "convertImageToPdf"
  /\ Len(attempts) = 2 /\ attempts[2].result = "fail"

\* C3: the remote strategy is attempted iff a credential is configured and
\* the row is one of the four remote rows, and then it is the first attempt;
\* the "not configured" failure of the adapter never occurs.
RemoteOnlyWhenConfigured ==
  /\ \A i \in DOMAIN attempts :
       attempts[i].strategy = "remote" =>
         i = 1 /\ cloudConvert /\ row \in RemoteRows
  /\ (pc /= "start" /\ cloudConvert /\ row \in RemoteRows) =>
       attempts /= <<>> /\ attempts[1].strategy = "remote"
  /\ row \in LocalOnlyRows => \A i \in DOMAIN attempts : attempts[i].strategy /= "remote"
  /\ \A i \in DOMAIN logged : logged[i] /= MsgNotConfigured
  /\ thrown /= MsgNotConfigured

\* C3 witness: with a credential, a PDF -> WORD job tried the remote strategy
\* first, and it failed
WitnessRemoteTriedFirst ==
  /\ Done /\ cloudConvert /\ row = "convertPdfToWord"
  /\ Len(attempts) = 3 /\ attempts[1].strategy = "remote"

\* C4: for Pdf -> WORD the attempts are a prefix of remote (if configured),
\* snapshot, text extraction; every attempt before the last has failed; text
\* extraction is attempted iff the snapshot was attempted and failed; a page
\* count of 0 fails the snapshot without rendering a page.
PdfToWordOrder ==
  row = "convertPdfToWord" =>
    LET chain == IF cloudConvert
                   THEN <<"remote", "snapshot", "pdfToWordBasic">>
                   ELSE <<"snapshot", "pdfToWordBasic">>
    IN /\ Len(attempts) <= Len(chain)
       /\ \A i \in DOMAIN attempts : attempts[i].strategy = chain[i]
       /\ \A i \in DOMAIN attempts : i < Len(attempts) => attempts[i].result = "fail"
       /\ (\E i \in DOMAIN attempts : attempts[i].strategy = "pdfToWordBasic")
            <=> (\E i \in DOMAIN attempts :
                   attempts[i].strategy = "snapshot" /\ attempts[i].result = "fail")
       /\ \A i \in DOMAIN attempts :
            (attempts[i].strategy = "snapshot" /\ attempts[i].msg = MsgPdfEmpty) =>
               /\ imagePaths = <<>>
               /\ \A k \in 1..MaxPages : ~existsSync(files, snapshotPath(k))

\* C4 witness: a PDF with 0 pages, remote failed, snapshot failed as empty,
\* text extraction attempted and failed
WitnessEmptyPdfToWord ==
  /\ Failed /\ row = "convertPdfToWord"
  /\ Len(attempts) = 3
  /\ attempts[2].msg = MsgPdfEmpty
  /\ attempts[3].strategy = "pdfToWordBasic" /\ attempts[3].result = "fail"

\* C5: when the outcome of a job with an uploaded file is returned, the input
\* file is gone and exactly one unlink of its path was issued; never two.
InputDeletedExactlyOnce ==
  /\ inputUnlinks <= 1
  /\ (Done /\ hasFile) => (~existsSync(files, file.path) /\ inputUnlinks = 1)

\* C5 witness: a job whose two strategies both failed has returned its
\* failure with the input file deleted by the catch block
WitnessInputDeletedOnFailure ==
  /\ Failed /\ hasFile /\ responses[1].status = 500
  /\ Len(attempts) = 2
  /\ inputUnlinks = 1 /\ ~existsSync(files, file.path)

\* C6: every response is either a success with a file name and no error, or
\* a failure with a non-empty error and no file name.
OutcomeShapeUnambiguous ==
  \A i \in DOMAIN responses :
    LET r == responses[i] IN
      \/ r.success /\ r.filename \notin {Absent, ""} /\ r.error = Absent
      \/ ~r.success /\ r.error \notin {Absent, ""} /\ r.filename = Absent

\* C6 witness: a strategy failed with an error that has no message
WitnessFailureWithoutMessage ==
  /\ Failed /\ thrown = "" /\ attempts /= <<>>
  /\ responses[1].error = MsgDefault

\* C7: a job never sends two responses; it has sent exactly one when it is
\* over, a failure of status 500 whenever a strategy or the routine has
\* thrown; and until then the handler can always take a step.
ExactlyOneOutcome ==
  /\ Len(responses) <= 1
  /\ Done <=> Len(responses) = 1
  /\ ~Done => ENABLED Next
  /\ (Done /\ attempts /= <<>> /\ attempts[Len(attempts)].result = "fail") =>
       /\ ~responses[1].success
       /\ responses[1].status = 500
       /\ responses[1].error \notin {Absent, ""}

\* C7 witness: a zero-page PDF to WORD ended with one failure response
WitnessZeroPagePdfOneOutcome ==
  /\ Done /\ row = "convertPdfToWord" /\ ~cloudConvert
  /\ attempts[1].msg = MsgPdfEmpty
  /\ responses = <<ConversionResponse(500, FALSE, Absent, Absent, MsgPdfToWordBasic,
                                     Absent, Absent)>>

\* C8 as stated: when a chain ends without success, the error reported is the
\* failure message of the last strategy that was attempted.
ReportedErrorIsLastStrategyMessage ==
  (Failed /\ row /= "none" /\ attempts /= <<>>) =>
    responses[1].error = attempts[Len(attempts)].msg

\* C8 amended: when a chain ends without success, the error reported is the
\* failure message of the last strategy attempted, or the handler's generic
\* message when that failure has no message; except for a legacy .doc input
\* with target PDF, where it is the ".doc needs CloudConvert" message of the
\* routine. Failures of earlier strategies are logged and are not reported.
ReportedErrorIsLastMessageOrDefault ==
  (Failed /\ row /= "none") =>
    /\ IF LegacyDocRow
         THEN responses[1].error = MsgOldDoc
         ELSE /\ attempts /= <<>>
              /\ attempts[Len(attempts)].result = "fail"
              /\ responses[1].error =
                   (IF attempts[Len(attempts)].msg /= ""
                      THEN attempts[Len(attempts)].msg ELSE MsgDefault)
    /\ \A i \in DOMAIN attempts :
         (i < Len(attempts) \/ LegacyDocRow) =>
            /\ attempts[i].result = "fail"
            /\ attempts[i].msg /= responses[1].error
            /\ \E j \in DOMAIN logged : logged[j] = attempts[i].msg

\* C8 witness: three strategies failed and the message of the third was reported
WitnessLastOfThreeReported ==
  /\ Failed /\ Len(attempts) = 3
  /\ attempts[1].msg /= attempts[3].msg /\ attempts[2].msg /= attempts[3].msg
  /\ responses[1].error = attempts[3].msg

\* C9 as stated: a job whose outcome is a failure leaves no file at its
\* output path.
NoOutputAfterFailure ==
  (Failed /\ Dispatched) => ~existsSync(files, outputPath)

\* C10: a target outside the seven formats is refused with the message that
\* lists the seven, with no routine entered and no strategy attempted; every
\* strategy attempt has a target among the seven.
TargetValidatedFirst ==
  /\ (pc /= "start" /\ hasFile /\ targetFormat \notin SevenFormats) =>
       /\ Done
       /\ row = "none" /\ attempts = <<>>
       /\ DOMAIN files = {}
       /\ responses = <<ConversionResponse(400, FALSE, Absent, Absent,
            "Invalid target format. Supported formats: PNG, JPG, WEBP, TIFF, PDF, TXT, WORD",
            Absent, Absent)>>
  /\ (attempts /= <<>> \/ row /= "none") => targetFormat \in SevenFormats

\* C10 witness: the lower-case target "png" was refused
WitnessLowerCaseTargetRefused ==
  /\ Done /\ hasFile /\ targetFormat = "png"
  /\ ~responses[1].success /\ responses[1].status = 400

\* the targets for which the handler has a row for this source
rowTargets(mimeType) == {f \in SevenFormats : selectRow(mimeType, f) /= "none"}

Unsupported == Done /\ Dispatched /\ row = "none"

\* C11 as stated: for a source kind other than Unknown, the "Cannot convert"
\* message names a format iff the handler has a row for that source and format.
UnsupportedMessageListsRowTargets ==
  (Unsupported /\ sourceKind(file.mimetype) /= "Unknown") =>
    /\ responses[1].error = MsgUnsupported
    /\ Range(listedTargets(file.mimetype)) = rowTargets(file.mimetype)

(* ---------------------------------------------------------------------- *)
(* Concurrent requests: PDF uploads served at the same time, without a     *)
(* remote credential, by convertPdfToImage and convertPdfToWord            *)
(* ---------------------------------------------------------------------- *)

JobIds == 1..NumJobs

\* original names of the uploaded PDFs
Names == {"report", "notes"}

\* targets of the concurrent requests
JobTargets == {"PNG", "WEBP", "WORD"}

IdleJob ==
  [pc |-> "idle", target |-> "PNG", name |-> "report", input |-> Path("", "", ""),
   output |-> Path("", "", ""), snapshot |-> Path("", "", ""), touched |-> {},
   success |-> FALSE]

\* multer.diskStorage: Date.now() + "-" + random + "-" + originalname; the
\* random part is what tells the uploads of two requests apart
uploadPath(j, name) ==
  Path("uploads", ToString(now) \o "-" \o ToString(j) \o "-" \o name, "pdf")

\* path.join(convertedDir, `${Date.now()}-${outputFilename}`)
jobOutputPath(name, format) ==
  Path("converted", ToString(now) \o "-" \o name \o "-converted",
       getExtensionFromFormat(format))

\* pdf2pic of convertPdfToImage: saveFilename "temp-pdf-page", page 1
jobTempPagePath(format) == Path("converted", "temp-pdf-page.1", toLowerCase(format))

\* pdf2pic of convertPdfToWordSnapshot: saveFilename `pdf-snapshot-${Date.now()}`
jobSnapshotPath == Path("converted", "pdf-snapshot-" \o ToString(now) \o ".1", "png")

running(j) == jobs[j].pc \notin {"idle", "done"}

touch(j, paths) == [jobs[j] EXCEPT !.touched = @ \cup paths]

\* the handler's catch: unlink the upload if it exists, answer success: false
jobFails(j, dsk, paths) ==
  /\ disk' = unlinkIfExists(dsk, jobs[j].input)
  /\ jobs' = [jobs EXCEPT ![j] = [touch(j, paths \cup {jobs[j].input})
                                    EXCEPT !.pc = "done", !.success = FALSE]]

\* the tail of the row: unlink the upload, answer success: true
jobSucceeds(j, dsk, paths) ==
  /\ disk' = unlinkIfExists(dsk, jobs[j].input)
  /\ jobs' = [jobs EXCEPT ![j] = [touch(j, paths \cup {jobs[j].input})
                                    EXCEPT !.pc = "done", !.success = TRUE]]

JobsInit ==
  /\ cloudConvert = FALSE
  /\ req = [file |-> NoFile, targetFormat |-> Absent]
  /\ pc = "done"
  /\ files = [p \in {} |-> "full"]
  /\ row = "none"
  /\ caller = "none"
  /\ attempts = <<>>
  /\ thrown = ""
  /\ logged = <<>>
  /\ responses = <<>>
  /\ inputUnlinks = 0
  /\ pageCount = 0
  /\ page = 0
  /\ imagePaths = <<>>
  /\ lastStderr = ""
  /\ remoteCalls = <<>>
  /\ jobs = [j \in JobIds |-> IdleJob]
  /\ disk = [p \in {} |-> 0]
  /\ now = 0
  /\ textPdf = <<>>
  /\ wordPdf = <<>>
  /\ visitor = <<>>
  /\ downloads = <<>>
  /\ ui = <<>>

\* time passes between two steps of the event loop
Tick ==
  /\ now < MaxClock
  /\ now' = now + 1
  /\ UNCHANGED <<jobVars, otherVars, jobs, disk>>

\* multer stores the upload; the handler runs up to the first await of its row
Arrive(j) ==
  /\ jobs[j].pc = "idle"
  /\ \E name \in Names, format \in JobTargets :
       /\ disk' = writeFile(disk, uploadPath(j, name), j)
       /\ jobs' = [jobs EXCEPT ![j] =
            [pc |-> IF format = "WORD" THEN "getPdfPageCount" ELSE "pdf2pic",
             target |-> format, name |-> name, input |-> uploadPath(j, name),
             output |-> jobOutputPath(name, format), snapshot |-> Path("", "", ""),
             touched |-> {uploadPath(j, name)}, success |-> FALSE]]
  /\ UNCHANGED <<jobVars, otherVars, now>>

\* convertPdfToImage: GraphicsMagick writes page 1 where pdf2pic told it to
Rasterize(j) ==
  /\ jobs[j].pc = "pdf2pic"
  /\ \/ /\ disk' = writeFile(disk, jobTempPagePath(jobs[j].target), j)
        /\ jobs' = [jobs EXCEPT ![j] =
             [touch(j, {jobTempPagePath(jobs[j].target)}) EXCEPT !.pc = "rasterized"]]
     \/ jobFails(j, disk, {})
  /\ UNCHANGED <<jobVars, otherVars, now>>

\* convertPdfToImage after await convert(1): fs.renameSync, or the call of convertImage
AfterRasterize(j) ==
  LET temp == jobTempPagePath(jobs[j].target) IN
  /\ jobs[j].pc = "rasterized"
  /\ IF jobs[j].target \in {"PNG", "JPG"}
       THEN IF existsSync(disk, temp)
              THEN jobSucceeds(j, renameSync(disk, temp, jobs[j].output),
                               {temp, jobs[j].output})
              ELSE jobFails(j, disk, {temp})
       ELSE /\ jobs' = [jobs EXCEPT ![j].pc = "sharp"]
            /\ disk' = disk
  /\ UNCHANGED <<jobVars, otherVars, now>>

\* convertImage(result.path, outputPath, targetFormat): sharp reads the page
\* and writes the output
Recode(j) ==
  LET temp == jobTempPagePath(jobs[j].target) IN
  /\ jobs[j].pc = "sharp"
  /\ IF existsSync(disk, temp)
       THEN /\ disk' = writeFile(disk, jobs[j].output, disk[temp])
            /\ jobs' = [jobs EXCEPT ![j] =
                 [touch(j, {temp, jobs[j].output}) EXCEPT !.pc = "recoded"]]
       ELSE jobFails(j, disk, {temp})
  /\ UNCHANGED <<jobVars, otherVars, now>>

\* convertPdfToImage after await convertImage: fs.unlinkSync(result.path)
UnlinkPage(j) ==
  LET temp == jobTempPagePath(jobs[j].target) IN
  /\ jobs[j].pc = "recoded"
  /\ IF existsSync(disk, temp)
       THEN jobSucceeds(j, unlinkSync(disk, temp), {temp})
       ELSE jobFails(j, disk, {temp})
  /\ UNCHANGED <<jobVars, otherVars, now>>

\* convertPdfToWordSnapshot after await getPdfPageCount: the options with
\* Date.now(), then await convert(1)
StartSnapshot(j) ==
  /\ jobs[j].pc = "getPdfPageCount"
  /\ jobs' = [jobs EXCEPT ![j].pc = "snap_render", ![j].snapshot = jobSnapshotPath]
  /\ UNCHANGED <<jobVars, otherVars, disk, now>>

\* GraphicsMagick writes the page image of the one-page PDF
RenderSnapshot(j) ==
  /\ jobs[j].pc = "snap_render"
  /\ disk' = writeFile(disk, jobs[j].snapshot, j)
  /\ jobs' = [jobs EXCEPT ![j] = [touch(j, {jobs[j].snapshot}) EXCEPT !.pc = "snap_build"]]
  /\ UNCHANGED <<jobVars, otherVars, now>>

\* read the page image, write the document, finally unlink the page image;
\* when the image cannot be read convertPdfToWordBasic writes the document
BuildSnapshot(j) ==
  LET img == jobs[j].snapshot IN
  /\ jobs[j].pc = "snap_build"
  /\ IF existsSync(disk, img)
       THEN jobSucceeds(j, unlinkSync(writeFile(disk, jobs[j].output, disk[img]), img),
                        {img, jobs[j].output})
       ELSE jobSucceeds(j, writeFile(disk, jobs[j].output, j), {img, jobs[j].output})
  /\ UNCHANGED <<jobVars, otherVars, now>>

JobsNext ==
  \/ Tick
  \/ \E j \in JobIds : Arrive(j)
  \/ \E j \in JobIds : Rasterize(j)
  \/ \E j \in JobIds : AfterRasterize(j)
  \/ \E j \in JobIds : Recode(j)
  \/ \E j \in JobIds : UnlinkPage(j)
  \/ \E j \in JobIds : StartSnapshot(j)
  \/ \E j \in JobIds : RenderSnapshot(j)
  \/ \E j \in JobIds : BuildSnapshot(j)

SpecJobs == JobsInit /\ [][JobsNext]_vars

\* C12 as stated: two jobs that run at the same time touch no common path,
\* and a job that succeeded holds its own page in its output.
ConcurrentJobsShareNoPath ==
  /\ \A a, b \in JobIds :
       (a /= b /\ running(a) /\ running(b)) =>
          jobs[a].touched \cap jobs[b].touched = {}
  /\ \A j \in JobIds :
       (jobs[j].pc = "done" /\ jobs[j].success /\ existsSync(disk, jobs[j].output)) =>
          disk[jobs[j].output] = j

\* C13 as stated: any two distinct jobs, also two started in the same
\* millisecond for files of the same name and the same target, get
\* different output paths.
DistinctJobsDistinctOutputs ==
  \A a, b \in JobIds :
    (a /= b /\ jobs[a].pc /= "idle" /\ jobs[b].pc /= "idle") =>
       jobs[a].output /= jobs[b].output

\* the strategy s was the last one attempted and has returned
Returned(s) ==
  /\ attempts /= <<>>
  /\ attempts[Len(attempts)].strategy = s
  /\ attempts[Len(attempts)].result \in {"ok", "fail"}

\* C14 as stated: when the local rasterize strategy has returned, with
\* success or with failure, the rasterized page file no longer exists.
RasterizedPageGoneOnReturn ==
  Returned("rasterize") => ~existsSync(files, tempPagePath)

\* the snapshot strategy was attempted and has returned
SnapshotReturned ==
  \E i \in 1..Len(attempts) :
    attempts[i].strategy = "snapshot" /\ attempts[i].result \in {"ok", "fail"}

\* C15: once the multi-page snapshot strategy has returned, on success, on a
\* failed page render or on a failure while the document is built, none of
\* the page images it rendered exists.
SnapshotPagesDeletedOnEveryPath ==
  SnapshotReturned =>
    /\ \A i \in 1..Len(imagePaths) : ~existsSync(files, imagePaths[i])
    /\ \A k \in 1..MaxPages : ~existsSync(files, snapshotPath(k))

\* page 1 of 2 was rendered, the render of page 2 failed, page 1 is gone
WitnessPageDeletedAfterFailedRender ==
  /\ SnapshotReturned
  /\ pageCount = 2
  /\ imagePaths = <<snapshotPath(1)>>
  /\ attempts[1].msg = MsgRenderPage(2)
  /\ ~existsSync(files, snapshotPath(1))

\* a legacy .doc input with target PDF and no remote credential
LegacyDocWithoutCredential ==
  /\ Dispatched
  /\ file.mimetype = MimeDoc \/ toLowerCase(file.path.ext) = "doc"
  /\ targetFormat = "PDF"
  /\ ~cloudConvert

\* the job was refused with the .doc message and the local strategy was not attempted
RefusedAsLegacyDoc ==
  /\ \A i \in 1..Len(attempts) : attempts[i].strategy /= "wordToPdfBasic"
  /\ Done => /\ Len(responses) = 1
             /\ ~responses[1].success
             /\ responses[1].status = 500
             /\ responses[1].error = MsgOldDoc
             /\ ~existsSync(files, outputPath)

\* C16 as stated: a legacy .doc input (content type application/msword, or
\* upload path ending in .doc) with target PDF and no remote credential ends
\* in success = false with the .doc message, without the local strategy.
LegacyDocAlwaysRefused == LegacyDocWithoutCredential => RefusedAsLegacyDoc

\* C16 amended: the same for a legacy .doc input whose content type is one
\* of the two Word types; an upload whose path ends in .doc but whose
\* content type is not a Word type never reaches the legacy check.
LegacyWordDocRefused ==
  (LegacyDocWithoutCredential /\ isWordMime(file.mimetype)) => RefusedAsLegacyDoc

\* a .DOC upload sent with the docx content type was refused
WitnessDocxTypedLegacyDocRefused ==
  /\ LegacyDocWithoutCredential
  /\ file.mimetype = MimeDocx
  /\ file.path.ext = "DOC"
  /\ Done
  /\ responses[1].error = MsgOldDoc
  /\ attempts = <<>>

\* the local Word -> PDF strategy failed because the extracted text was blank
BlankWordFailure ==
  /\ Failed
  /\ Returned("wordToPdfBasic")
  /\ \E i \in 1..Len(logged) : logged[i] = MsgNoText

\* C17 as stated: a blank extracted text makes the local Word -> PDF strategy
\* fail without writing the output, and the reported failure differs from the
\* one reported for a document that could not be read or rendered.
EmptyDocumentDistinguishable ==
  BlankWordFailure =>
    /\ Len(attempts) = 1 => ~existsSync(files, outputPath)
    /\ responses[1].error /= MsgWordToPdfBasic

\* C18: when the PDF -> text strategy fails, its failure is the
\* 'corrupted or invalid' message if the extractor's error output contains
\* the syntax-error signal and the 'failed to extract text' message
\* otherwise; what the extractor printed is never the reported error.
PdfToTextFailureClassified ==
  (Returned("pdfToText") /\ attempts[Len(attempts)].result = "fail") =>
    LET msg == attempts[Len(attempts)].msg IN
    /\ msg = IF lastStderr \in SyntaxErrorOutputs
               THEN "The PDF file appears to be corrupted or invalid. Please try a different PDF file."
               ELSE "Failed to extract text from PDF. Please ensure the PDF contains readable text."
    /\ msg \notin Stderrs
    /\ thrown = msg
    /\ Done => responses[1].error = msg

\* the signal came after a warning on the same output; the job was reported
\* as a corrupted PDF
WitnessSyntaxErrorAfterWarning ==
  /\ Returned("pdfToText")
  /\ Done
  /\ lastStderr =
       "Syntax Warning: Invalid Font Weight; Syntax Error (4096): Dictionary key must be a name object"
  /\ responses[1].error = MsgPdfCorrupted

RemoteOrder == <<"create", "upload", "wait", "export", "fetch", "write">>

\* the remote strategy has not been followed by progress of a local strategy
OnlyRemoteActed ==
  /\ attempts /= <<>>
  /\ attempts[1].strategy = "remote"
  /\ Len(attempts) <= 2
  /\ Len(attempts) = 2 => attempts[2].result = "running"

\* C19: the remote strategy takes its steps in the order create, upload,
\* wait, read export, fetch, write, each only after the one before went
\* through; it succeeds exactly when all six did, and a failure before the
\* write step ends it as a remote failure with the output path not written.
RemoteStepsInOrder ==
  /\ Len(remoteCalls) <= Len(RemoteOrder)
  /\ \A i \in 1..Len(remoteCalls) :
       /\ remoteCalls[i].step = RemoteOrder[i]
       /\ i < Len(remoteCalls) => remoteCalls[i].ok
  /\ remoteCalls /= <<>> =>
       /\ attempts /= <<>> /\ attempts[1].strategy = "remote"
       /\ attempts[1].result = "ok" <=>
            (Len(remoteCalls) = 6 /\ remoteCalls[6].ok)
       /\ attempts[1].result = "fail" <=> ~remoteCalls[Len(remoteCalls)].ok
       /\ attempts[1].result = "fail" =>
            \E m \in RawMsgs \cup {MsgNoUploadTask, MsgNoExport, MsgDownload("Not Found")} :
              attempts[1].msg = "CloudConvert conversion failed: " \o m
  /\ (OnlyRemoteActed /\ \A i \in 1..Len(remoteCalls) : remoteCalls[i].step /= "write")
       => ~existsSync(files, outputPath)
  /\ (OnlyRemoteActed /\ existsSync(files, outputPath) /\ files[outputPath] = "full")
       => (Len(remoteCalls) = 6 /\ \A i \in 1..6 : remoteCalls[i].ok)

\* the download answered with a status that is not OK: remote failure, the
\* output path not written
WitnessNonOkDownloadWritesNothing ==
  /\ OnlyRemoteActed
  /\ Len(remoteCalls) = 5
  /\ ~remoteCalls[5].ok
  /\ attempts[1].msg = MsgCloudFailed(MsgDownload("Not Found"))
  /\ ~existsSync(files, outputPath)

NoStrategyTwice ==
  \A i, j \in 1..Len(attempts) : i /= j => attempts[i].strategy /= attempts[j].strategy

TerminalOutcome == Done /\ Len(responses) = 1 /\ responses[1].success \in BOOLEAN

\* C20: when every external call eventually returns or fails, a dispatched
\* job eventually answers with success or with failure, and no strategy is
\* attempted twice for a job.
EveryJobTerminatesWithoutRetry ==
  /\ []NoStrategyTwice
  /\ Dispatched ~> TerminalOutcome
  /\ <>Done

\* the longest chain ran to its end: remote, snapshot and basic, once each
WitnessThreeStrategiesOnceEach ==
  /\ TerminalOutcome
  /\ Len(attempts) = 3
  /\ attempts[1].strategy = "remote"
  /\ attempts[2].strategy = "snapshot"
  /\ attempts[3].strategy = "pdfToWordBasic"
  /\ attempts[3].result = "ok"

(* ---------------------------------------------------------------------- *)
(* convertTextToPdf: line wrapping and pagination                          *)
(* ---------------------------------------------------------------------- *)

\* no conversion request, no concurrent requests
NoRequest ==
  /\ cloudConvert = FALSE
  /\ req = [file |-> NoFile, targetFormat |-> Absent]
  /\ pc = "done"
  /\ files = [p \in {} |-> "full"]
  /\ row = "none"
  /\ caller = "none"
  /\ attempts = <<>>
  /\ thrown = ""
  /\ logged = <<>>
  /\ responses = <<>>
  /\ inputUnlinks = 0
  /\ pageCount = 0
  /\ page = 0
  /\ imagePaths = <<>>
  /\ lastStderr = ""
  /\ remoteCalls = <<>>
  /\ jobs = <<>>
  /\ disk = <<>>
  /\ now = 0

greatest(S) == CHOOSE x \in S : \A y \in S : x >= y

\* a string is the sequence of its characters
rep(c, n) == [i \in 1..n |-> c]

\* what String.prototype.trim removes
WhiteSpace == {" ", "\t", "\n", "\r"}

RECURSIVE trimStart(_)
trimStart(s) == IF s /= <<>> /\ Head(s) \in WhiteSpace THEN trimStart(Tail(s)) ELSE s

RECURSIVE trimEnd(_)
trimEnd(s) ==
  IF s /= <<>> /\ s[Len(s)] \in WhiteSpace THEN trimEnd(SubSeq(s, 1, Len(s) - 1)) ELSE s

\* s.trim()
trimChars(s) == trimEnd(trimStart(s))

\* s.lastIndexOf(c, fromIndex), indices from 0
lastIndexOf(s, c, fromIndex) ==
  LET I == {i \in 0..fromIndex : i < Len(s) /\ s[i + 1] = c}
  IN  IF I = {} THEN -1 ELSE greatest(I)

\* s.substring(start, end) and s.substring(start), indices from 0
substring(s, start, end) == SubSeq(s, start + 1, end)
substringFrom(s, start) == SubSeq(s, start + 1, Len(s))

\* s.split(c)
split(s, c) ==
  LET at == {i \in 1..Len(s) : s[i] = c}
      cut(k) == IF k = 0 THEN 0
                ELSE IF k > Cardinality(at) THEN Len(s) + 1
                ELSE CHOOSE i \in at : Cardinality({j \in at : j < i}) = k - 1
  IN  [k \in 1..(Cardinality(at) + 1) |-> SubSeq(s, cut(k - 1) + 1, cut(k) - 1)]

pageWidth == 612
pageHeight == 792
margin == 50
fontSize == 12
\* fontSize * 1.5
lineHeight == (fontSize * 3) \div 2
maxCharsPerLine == 80

\* Math.floor((pageHeight - 2 * margin) / lineHeight)
linesPerPage == (pageHeight - 2 * margin) \div lineHeight

\* the break point of one turn of the while loop
breakPoint(remaining) ==
  IF lastIndexOf(remaining, " ", maxCharsPerLine) = -1
    THEN maxCharsPerLine
    ELSE lastIndexOf(remaining, " ", maxCharsPerLine)

\* a while loop that takes the rest of the line as it is
keepRest(s) == s

\* remaining.substring(breakPoint).trim()
restAfterBreak(s) == trimChars(s)

RECURSIVE concat(_)
\* the lines of ls one after the other
concat(ls) ==
  IF ls = <<>> THEN <<>>
  ELSE IF Len(ls) = 1 THEN ls[1]
  ELSE concat(SubSeq(ls, 1, Len(ls) \div 2)) \o concat(SubSeq(ls, Len(ls) \div 2 + 1, Len(ls)))

\* the tokens of the generated lines: words of several lengths, runs of spaces, a tab
Tokens ==
  {<<>>, rep(" ", 1), rep(" ", 2), rep("\t", 1), rep("a", 1), rep("b", 40),
   rep("a", 79), rep("b", 80), rep("a", 81), rep("b", 170)}

\* the generated one-line texts
WrapTexts == {concat(ts) : ts \in [1..MaxTokens -> Tokens]}

Digits == <<"0", "1", "2", "3", "4", "5", "6", "7", "8", "9">>

\* line k of a generated many-line text: the two digits of k
numbered(k) == <<Digits[((k \div 10) % 10) + 1], Digits[(k % 10) + 1]>>

\* the generated text of n numbered lines
linesText(n) == concat([k \in 1..n |-> IF k = 1 THEN numbered(k) ELSE <<"\n">> \o numbered(k)])

HelloWorld == <<"H", "e", "l", "l", "o", "\n", "W", "o", "r", "l", "d">>

\* the contents of the uploaded text file
TextInputs == WrapTexts \cup {linesText(n) : n \in 1..MaxLines} \cup {HelloWorld}

\* the locals of convertTextToPdf after text.split("\n")
TextStart(text) ==
  [text |-> text, lines |-> split(text, "\n"), i |-> 1, remaining |-> <<>>,
   wrappedLines |-> <<>>, pages |-> <<>>, drawn |-> 0, at |-> "for"]

TextInit ==
  /\ NoRequest
  /\ textPdf \in {TextStart(text) : text \in TextInputs}
  /\ wordPdf = <<>>
  /\ visitor = <<>>
  /\ downloads = <<>>
  /\ ui = <<>>

textFrame == <<jobVars, serverVars, wordPdf, visitor, downloads, ui>>

\* one turn of `for (const line of lines)`: a short line is pushed, a long
\* one enters the while loop
WrapLine ==
  LET line == textPdf.lines[textPdf.i] IN
  /\ textPdf.at = "for"
  /\ textPdf.i <= Len(textPdf.lines)
  /\ textPdf' =
       IF Len(line) <= maxCharsPerLine
         THEN [textPdf EXCEPT !.wrappedLines = Append(@, line), !.i = @ + 1]
         ELSE [textPdf EXCEPT !.remaining = line, !.at = "while"]
  /\ UNCHANGED textFrame

\* one turn of `while (remaining.length > maxCharsPerLine)`
WrapBreak ==
  LET remaining == textPdf.remaining IN
  /\ textPdf.at = "while"
  /\ Len(remaining) > maxCharsPerLine
  /\ textPdf' =
       [textPdf EXCEPT
          !.wrappedLines = Append(@, substring(remaining, 0, breakPoint(remaining))),
          !.remaining = restAfterBreak(substringFrom(remaining, breakPoint(remaining)))]
  /\ UNCHANGED textFrame

\* the while loop ends: `if (remaining) wrappedLines.push(remaining)`
WrapRest ==
  /\ textPdf.at = "while"
  /\ Len(textPdf.remaining) <= maxCharsPerLine
  /\ textPdf' =
       [textPdf EXCEPT
          !.wrappedLines = IF textPdf.remaining /= <<>>
                             THEN Append(@, textPdf.remaining) ELSE @,
          !.remaining = <<>>, !.i = @ + 1, !.at = "for"]
  /\ UNCHANGED textFrame

\* the for loop ends: pdfDoc.addPage, lineCount = 0
FirstPage ==
  /\ textPdf.at = "for"
  /\ textPdf.i > Len(textPdf.lines)
  /\ textPdf' = [textPdf EXCEPT !.pages = <<<<>>>>, !.drawn = 0, !.at = "draw"]
  /\ UNCHANGED textFrame

\* a page loop that starts a new page one line late
pageIsFullLate(lineCount) == lineCount > linesPerPage

\* lineCount >= linesPerPage
pageIsFull(lineCount) == lineCount >= linesPerPage

\* one turn of `for (const line of wrappedLines)`: addPage when the page is
\* full, drawText, lineCount++
DrawLine ==
  LET line == textPdf.wrappedLines[textPdf.drawn + 1]
      lineCount == Len(textPdf.pages[Len(textPdf.pages)])
      pages == IF pageIsFull(lineCount) THEN Append(textPdf.pages, <<>>) ELSE textPdf.pages
  IN
  /\ textPdf.at = "draw"
  /\ textPdf.drawn < Len(textPdf.wrappedLines)
  /\ textPdf' = [textPdf EXCEPT
                   !.pages = [pages EXCEPT ![Len(pages)] = Append(@, line)],
                   !.drawn = @ + 1]
  /\ UNCHANGED textFrame

\* await pdfDoc.save(); fs.writeFileSync(outputPath, pdfBytes)
SaveTextPdf ==
  /\ textPdf.at = "draw"
  /\ textPdf.drawn = Len(textPdf.wrappedLines)
  /\ textPdf' = [textPdf EXCEPT !.at = "saved"]
  /\ UNCHANGED textFrame

TextNext == WrapLine \/ WrapBreak \/ WrapRest \/ FirstPage \/ DrawLine \/ SaveTextPdf

SpecText == TextInit /\ [][TextNext]_vars

\* the loops of convertTextToPdf are synchronous: every turn is taken
FairSpecText == SpecText /\ WF_vars(TextNext)

nonWhiteSpace(s) == SelectSeq(s, LAMBDA c : c \notin WhiteSpace)

Wrapped == textPdf.at \in {"draw", "saved"}

WrapInvariant ==
  /\ \A k \in 1..Len(textPdf.wrappedLines) : Len(textPdf.wrappedLines[k]) <= 80
  /\ (textPdf.at = "while" /\ textPdf.remaining /= textPdf.lines[textPdf.i]) =>
       \/ textPdf.remaining = <<>>
       \/ /\ Head(textPdf.remaining) \notin WhiteSpace
          /\ textPdf.remaining[Len(textPdf.remaining)] \notin WhiteSpace
  /\ Wrapped =>
       /\ (\A k \in 1..Len(textPdf.lines) : Len(textPdf.lines[k]) <= 80) =>
            textPdf.wrappedLines = textPdf.lines
       /\ nonWhiteSpace(concat(textPdf.wrappedLines)) = nonWhiteSpace(textPdf.text)

\* a turn of the while loop emits the part before the last space at an index
\* of at most 80, or the first 80 characters when there is none
WrapStepRule ==
  (textPdf.at = "while" /\ Len(textPdf.remaining) > 80) =>
    LET r == textPdf.remaining
        S == {k \in 0..80 : r[k + 1] = " "}
        b == IF S = {} THEN 80 ELSE greatest(S)
    IN  /\ textPdf'.wrappedLines = Append(textPdf.wrappedLines, SubSeq(r, 1, b))
        /\ nonWhiteSpace(textPdf'.remaining) = nonWhiteSpace(SubSeq(r, b + 1, Len(r)))
        /\ Len(textPdf'.remaining) < Len(r)

\* C21: the wrapping of convertTextToPdf terminates; it emits only lines of
\* at most 80 characters; lines of at most 80 characters are emitted
\* unchanged; a longer line is split at the last space at or before index 80,
\* or at index 80 when there is none, the rest trimmed; the characters that
\* are not white space are those of the input, in order.
TextWrappingTerminatesWithin80 ==
  /\ []WrapInvariant
  /\ [][WrapStepRule]_vars
  /\ <>(textPdf.at = "saved")

\* a space followed by a word of 81 letters: an empty line, 80 letters, one letter
WitnessLeadingSpaceHardBreak ==
  /\ textPdf.at = "saved"
  /\ textPdf.text = rep(" ", 1) \o rep("a", 81)
  /\ textPdf.wrappedLines = <<<<>>, rep("a", 80), rep("a", 1)>>

\* C22: with L = floor((792 - 2 * 50) / (12 * 1.5)) = 38 lines per page, the
\* N wrapped lines are laid out on max(1, ceil(N / L)) pages, every page
\* but the last holds L lines, the lines keep their order, and "Hello\nWorld"
\* gives one page with the lines Hello and World.
PaginationBy38Lines ==
  /\ linesPerPage = 38
  /\ textPdf.at = "saved" =>
       LET N == Len(textPdf.wrappedLines)
           P == Len(textPdf.pages)
       IN  /\ P = IF N = 0 THEN 1 ELSE (N + 37) \div 38
           /\ \A k \in 1..(P - 1) : Len(textPdf.pages[k]) = 38
           /\ Len(textPdf.pages[P]) <= 38
           /\ concat(textPdf.pages) = textPdf.wrappedLines
           /\ textPdf.text = HelloWorld =>
                textPdf.pages = <<<<<<"H", "e", "l", "l", "o">>, <<"W", "o", "r", "l", "d">>>>>>

\* 77 lines: two full pages and a third page with one line
WitnessThirdPageWithOneLine ==
  /\ textPdf.at = "saved"
  /\ textPdf.text = linesText(77)
  /\ Len(textPdf.pages) = 3
  /\ textPdf.pages[3] = <<numbered(77)>>

(* ---------------------------------------------------------------------- *)
(* The visitor counter: getVisitorCount, incrementVisitorCount, /api/visit *)
(* ---------------------------------------------------------------------- *)

\* visitor_count.json: absent, holding {"count": n}, or not parseable
NoCountFile == [exists |-> FALSE, parses |-> FALSE, count |-> 0]
CountFile(n) == [exists |-> TRUE, parses |-> TRUE, count |-> n]
BrokenCountFile == [exists |-> TRUE, parses |-> FALSE, count |-> 0]

\* existsSync, readFileSync, JSON.parse, `data.count || 0`; 0 on any error
getVisitorCount(f) == IF f.exists /\ f.parses THEN f.count ELSE 0

\* what a failing fs.writeFileSync leaves: the file as it was, or the file
\* truncated by the open and not written
FailedCountWrites(f) == {f, BrokenCountFile}

VisitInit ==
  /\ NoRequest
  /\ textPdf = <<>>
  /\ wordPdf = <<>>
  /\ visitor \in {[file |-> f, returned |-> <<>>, requests |-> 0] :
                    f \in {NoCountFile, CountFile(0), CountFile(1)}}
  /\ downloads = <<>>
  /\ ui = <<>>

visitFrame == <<jobVars, serverVars, textPdf, wordPdf, downloads, ui>>

\* GET /api/visit: incrementVisitorCount, res.json({ count })
Visit ==
  /\ visitor.requests < MaxVisits
  /\ LET count == getVisitorCount(visitor.file) + 1 IN
       visitor' = [file |-> CountFile(count),
                   returned |-> Append(visitor.returned, count),
                   requests |-> visitor.requests + 1]
  /\ UNCHANGED visitFrame

\* GET /api/visit when fs.writeFileSync throws: the request ends without a count
VisitWriteFails ==
  /\ visitor.requests < MaxVisits
  /\ \E f \in FailedCountWrites(visitor.file) :
       visitor' = [visitor EXCEPT !.file = f, !.requests = @ + 1]
  /\ UNCHANGED visitFrame

VisitNext == Visit \/ VisitWriteFails

SpecVisit == VisitInit /\ [][VisitNext]_vars

\* C23 as stated: every request returns one more than the request before it
\* returned, and the persisted count never decreases: it is never below the
\* count returned last.
VisitorCountNeverResets ==
  /\ \A k \in 2..Len(visitor.returned) :
       visitor.returned[k] = visitor.returned[k - 1] + 1
  /\ visitor.returned /= <<>> =>
       getVisitorCount(visitor.file) >= visitor.returned[Len(visitor.returned)]

(* ---------------------------------------------------------------------- *)
(* GET /api/download/:filename, for the output of one successful job       *)
(* ---------------------------------------------------------------------- *)

\* setTimeout(..., 60000)
deleteDelay == 60000

\* the converted file exists, nobody has asked for it yet
DownloadInit ==
  /\ NoRequest
  /\ textPdf = <<>>
  /\ wordPdf = <<>>
  /\ visitor = <<>>
  /\ downloads = [exists |-> TRUE, timers |-> {}, clock |-> 0, answers |-> <<>>]
  /\ ui = <<>>

downloadFrame == <<jobVars, serverVars, textPdf, wordPdf, visitor, ui>>

\* time passes
HalfMinute ==
  /\ downloads.clock < MaxHalfMinutes * (deleteDelay \div 2)
  /\ downloads' = [downloads EXCEPT !.clock = @ + deleteDelay \div 2]
  /\ UNCHANGED downloadFrame

\* the handler and the callback of res.download: 404 when the file is
\* missing; after a transfer without error the timer is set, after a failed
\* transfer it is not
Download ==
  /\ Len(downloads.answers) < MaxDownloads
  /\ IF ~downloads.exists
       THEN downloads' = [downloads EXCEPT !.answers = Append(@, "404")]
       ELSE \/ downloads' = [downloads EXCEPT
                               !.answers = Append(@, "sent"),
                               !.timers = @ \cup {downloads.clock + deleteDelay}]
            \/ downloads' = [downloads EXCEPT !.answers = Append(@, "aborted")]
  /\ UNCHANGED downloadFrame

\* a timer comes due: if (fs.existsSync(filePath)) fs.unlinkSync(filePath)
DeleteAfterDownload ==
  /\ \E due \in downloads.timers :
       /\ due <= downloads.clock
       /\ downloads' = [downloads EXCEPT !.timers = @ \ {due}, !.exists = FALSE]
  /\ UNCHANGED downloadFrame

DownloadNext == HalfMinute \/ Download \/ DeleteAfterDownload

SpecDownload == DownloadInit /\ [][DownloadNext]_vars

\* C24 as stated: after a successful conversion the server never deletes the
\* converted file, whatever the number of downloads, and the download URL
\* keeps returning the file.
ConvertedFilePersists ==
  /\ downloads.exists
  /\ \A k \in 1..Len(downloads.answers) : downloads.answers[k] /= "404"

(* ---------------------------------------------------------------------- *)
(* convertWordToPdfBasic: sanitizeTextForPdf and the measured word wrap    *)
(* ---------------------------------------------------------------------- *)

\* characters outside printable ASCII are written by name
ControlChars == {"\n", "\t", "\r", "DEL"}
PrivateUseChars == {"PUA-F0B7"}
Replacements ==
  [c \in {"BULLET", "LSQUOTE", "RSQUOTE", "ENDASH", "EMDASH", "ELLIPSIS", "NBSP"} |->
     CASE c = "BULLET" -> <<"-">>
       [] c = "LSQUOTE" -> <<"'">>
       [] c = "RSQUOTE" -> <<"'">>
       [] c = "ENDASH" -> <<"-">>
       [] c = "EMDASH" -> <<"-", "-">>
       [] c = "ELLIPSIS" -> <<".", ".", ".">>
       [] c = "NBSP" -> <<" ">>]
OtherNonAscii == {"EACUTE"}
PrintableAscii == {"a", "b", " ", "-", "'", "."}

\* .replace(/[\u0000-\u001F\u007F-\u009F]/g, '')
stripControl(s) == SelectSeq(s, LAMBDA c : c \notin ControlChars)

\* .replace(/[\uF000-\uFFFF]/g, '')
stripPrivateUse(s) == SelectSeq(s, LAMBDA c : c \notin PrivateUseChars)

\* .replace(/[^\x20-\x7E\n\t]/g, char => replacements[char] || ' ')
replaceNonAscii(s) ==
  concat([k \in 1..Len(s) |->
            IF s[k] \in PrintableAscii \cup {"\n", "\t"} THEN <<s[k]>>
            ELSE IF s[k] \in DOMAIN Replacements THEN Replacements[s[k]]
            ELSE <<" ">>])

sanitizeTextForPdf(text) == replaceNonAscii(stripPrivateUse(stripControl(text)))

\* the runs of white space and of other characters of s, in order
runsOf(s) ==
  LET starts == {k \in 1..Len(s) : k = 1 \/ (s[k] \in WhiteSpace) /= (s[k - 1] \in WhiteSpace)}
      start(n) == CHOOSE b \in starts : Cardinality({c \in starts : c < b}) = n - 1
      n == Cardinality(starts)
  IN  [r \in 1..n |-> SubSeq(s, start(r), IF r = n THEN Len(s) ELSE start(r + 1) - 1)]

\* line.split(/(\s+)/): words and the white space between them, in turn,
\* with an empty word before leading and after trailing white space
splitOnWhiteSpace(line) ==
  IF line = <<>> THEN <<<<>>>>
  ELSE (IF line[1] \in WhiteSpace THEN <<<<>>>> ELSE <<>>)
         \o runsOf(line)
         \o (IF line[Len(line)] \in WhiteSpace THEN <<<<>>>> ELSE <<>>)

\* Courier: every glyph is 600 units wide in a 1000-unit em
courierGlyphWidth == 600

\* font.widthOfTextAtSize(s, fontSize), in thousandths of a unit
widthOfTextAtSize(s) == Len(s) * courierGlyphWidth * fontSize

\* pageWidth - 2 * margin, in thousandths of a unit
maxWidth == (pageWidth - 2 * margin) * 1000

\* a wrap that never closes a line
fitsAlways(current, candidate) == TRUE

\* width <= maxWidth || current.length === 0
fits(current, candidate) == widthOfTextAtSize(candidate) <= maxWidth \/ Len(current) = 0

\* the tokens of the generated extracted texts
WordTokens ==
  {rep(" ", 1), rep(" ", 2), rep("a", 1), rep("b", 35), rep("a", 36), rep("b", 71),
   rep("a", 72), <<"\n">>, <<"EMDASH">>, <<"EACUTE">>, <<"PUA-F0B7">>}

\* values of mammoth.extractRawText that are not blank
WordTexts == {t \in {concat(ts) : ts \in [1..MaxTokens -> WordTokens]} : trimChars(t) /= <<>>}

WordInit ==
  /\ NoRequest
  /\ textPdf = <<>>
  /\ wordPdf \in {[raw |-> text, text |-> text, lines |-> <<>>, i |-> 0, words |-> <<>>,
                   w |-> 0, current |-> <<>>, wrappedLines |-> <<>>, at |-> "sanitize"] :
                    text \in WordTexts}
  /\ visitor = <<>>
  /\ downloads = <<>>
  /\ ui = <<>>

wordFrame == <<jobVars, serverVars, textPdf, visitor, downloads, ui>>

\* text = sanitizeTextForPdf(text); lines = text.split("\n")
Sanitize ==
  /\ wordPdf.at = "sanitize"
  /\ wordPdf' = [wordPdf EXCEPT
                   !.text = sanitizeTextForPdf(wordPdf.raw),
                   !.lines = split(sanitizeTextForPdf(wordPdf.raw), "\n"),
                   !.i = 1, !.at = "for"]
  /\ UNCHANGED wordFrame

\* `for (const line of lines)`: words = line.split(/(\s+)/), current = ""
SplitLine ==
  /\ wordPdf.at = "for"
  /\ wordPdf.i <= Len(wordPdf.lines)
  /\ wordPdf' = [wordPdf EXCEPT
                   !.words = splitOnWhiteSpace(wordPdf.lines[wordPdf.i]),
                   !.w = 1, !.current = <<>>, !.at = "words"]
  /\ UNCHANGED wordFrame

\* one turn of `for (const word of words)`
PlaceWord ==
  LET word == wordPdf.words[wordPdf.w]
      candidate == wordPdf.current \o word
  IN
  /\ wordPdf.at = "words"
  /\ wordPdf.w <= Len(wordPdf.words)
  /\ wordPdf' =
       IF fits(wordPdf.current, candidate)
         THEN [wordPdf EXCEPT !.current = candidate, !.w = @ + 1]
         ELSE [wordPdf EXCEPT
                 !.wrappedLines = Append(@, trimEnd(wordPdf.current)),
                 !.current = trimStart(word), !.w = @ + 1]
  /\ UNCHANGED wordFrame

\* after the words of a line: wrappedLines.push(current.trimEnd())
CloseLine ==
  /\ wordPdf.at = "words"
  /\ wordPdf.w > Len(wordPdf.words)
  /\ wordPdf' = [wordPdf EXCEPT
                   !.wrappedLines = Append(@, trimEnd(wordPdf.current)),
                   !.current = <<>>, !.i = @ + 1, !.at = "for"]
  /\ UNCHANGED wordFrame

\* the lines are wrapped: the page loop draws them
DrawWordLines ==
  /\ wordPdf.at = "for"
  /\ wordPdf.i > Len(wordPdf.lines)
  /\ wordPdf' = [wordPdf EXCEPT !.at = "draw"]
  /\ UNCHANGED wordFrame

WordNext == Sanitize \/ SplitLine \/ PlaceWord \/ CloseLine \/ DrawWordLines

SpecWord == WordInit /\ [][WordNext]_vars

\* the words of a line: its runs of characters that are not white space
wordsOf(x) ==
  SelectSeq(splitOnWhiteSpace(x), LAMBDA t : t /= <<>> /\ t[1] \notin WhiteSpace)

WordWrapInvariant ==
  /\ \A k \in 1..Len(wordPdf.wrappedLines) :
       LET e == wordPdf.wrappedLines[k] IN
       Len(e) * 72 > 5120 => Len(wordsOf(e)) = 1 /\ wordsOf(e)[1] = e
  /\ wordPdf.at = "draw" =>
       concat([k \in 1..Len(wordPdf.wrappedLines) |-> wordsOf(wordPdf.wrappedLines[k])])
         = concat([k \in 1..Len(wordPdf.lines) |-> wordsOf(wordPdf.lines[k])])

\* a line is closed before the last token only when the next token does not fit
CloseOnlyOnOverflow ==
  (/\ wordPdf.at = "words"
   /\ wordPdf.w <= Len(wordPdf.words)
   /\ Len(wordPdf'.wrappedLines) > Len(wordPdf.wrappedLines)) =>
     /\ wordPdf.current /= <<>>
     /\ Len(wordPdf.current \o wordPdf.words[wordPdf.w]) * 72 > 5120
     /\ wordPdf'.wrappedLines = Append(wordPdf.wrappedLines, trimEnd(wordPdf.current))

\* C25: the greedy wrap of convertWordToPdfBasic never breaks inside a word:
\* the words of the emitted lines are the words of the input lines, whole and
\* in order; a line is closed between tokens, when the next token would pass
\* the 512-unit width; an emitted line wider than 512 units is a single word.
WordWrapKeepsWordsWhole ==
  /\ []WordWrapInvariant
  /\ [][CloseOnlyOnOverflow]_vars

\* two words of 36 letters do not fit on one line of 71: the line is closed
\* between them
WitnessLineClosedBetweenWords ==
  /\ wordPdf.at = "draw"
  /\ wordPdf.raw = rep("a", 36) \o rep(" ", 1) \o rep("a", 36)
  /\ wordPdf.wrappedLines = <<rep("a", 36), rep("a", 36)>>

\* C26 as stated: the newline characters of the extracted text survive
\* sanitizeTextForPdf, so a text of N newline-separated lines is split into
\* N lines before wrapping and at least N lines are drawn.
NewlinesSurviveSanitization ==
  LET N == Len(split(wordPdf.raw, "\n")) IN
  /\ wordPdf.at /= "sanitize" =>
       /\ Len(SelectSeq(wordPdf.text, LAMBDA c : c = "\n")) = N - 1
       /\ Len(wordPdf.lines) = N
  /\ wordPdf.at = "draw" => Len(wordPdf.wrappedLines) >= N

\* convertImage has been called and has not returned
InConvertImage == pc \in {"sharp_toFile", "pdf_recode"}

\* C27: convertImage is only ever called with PNG, JPG, WEBP or TIFF, from
\* the Image -> image row and from the WEBP/TIFF branch of the rasterize
\* strategy, so its 'Unsupported image format' error is never thrown, logged
\* or reported.
UnsupportedImageFormatUnreachable ==
  /\ InConvertImage => targetFormat \in {"PNG", "JPG", "WEBP", "TIFF"}
  /\ pc = "pdf_recode" => targetFormat \in {"WEBP", "TIFF"}
  /\ Dispatched =>
       LET m == "Unsupported image format: " \o targetFormat IN
       /\ thrown /= m
       /\ \A k \in 1..Len(attempts) : attempts[k].msg /= m
       /\ \A k \in 1..Len(logged) : logged[k] /= m
       /\ \A k \in 1..Len(responses) : responses[k].error /= m

\* the rasterize strategy has called convertImage for a TIFF target
WitnessRecodeOfRasterizedPage ==
  /\ pc = "pdf_recode"
  /\ row = "convertPdfToImage"
  /\ targetFormat = "TIFF"
  /\ existsSync(files, tempPagePath)

\* a strategy has been called and has not returned
StrategyRunning ==
  attempts /= <<>> /\ attempts[Len(attempts)].result = "running"

\* C28: wherever success has been reported, the strategy attempted last has
\* succeeded, the complete output file exists at the path the download URL
\* names, and the input file is gone; while a strategy is running the input
\* file has not been deleted.
SuccessOnlyAfterOutputAndCleanup ==
  /\ \A k \in 1..Len(responses) :
       responses[k].success =>
         /\ attempts /= <<>>
         /\ attempts[Len(attempts)].result = "ok"
         /\ existsSync(files, outputPath)
         /\ files[outputPath] = "full"
         /\ responses[k].downloadUrl =
              "/api/download/" \o outputPath.base \o "." \o outputPath.ext
         /\ ~existsSync(files, file.path)
         /\ inputUnlinks = 1
  /\ (StrategyRunning \/ pc = "rowDone") =>
       /\ existsSync(files, file.path)
       /\ inputUnlinks = 0

\* success reported after the remote strategy left a partial output and the
\* local strategy wrote the complete one
WitnessSuccessOverPartialOutput ==
  /\ Done
  /\ responses[1].success
  /\ Len(attempts) = 2
  /\ attempts[1].strategy = "remote"
  /\ Len(remoteCalls) = 6
  /\ ~remoteCalls[6].ok
  /\ files[outputPath] = "full"
  /\ ~existsSync(files, file.path)

\* the request was answered without entering a row: no file, invalid target
\* or unsupported pair
Rejected == Done /\ row = "none"

\* C29: a request rejected before any strategy runs leaves nothing behind and
\* contacts nobody: its own upload is deleted (when there was one), no file
\* exists at the output path or anywhere else, no strategy was attempted, the
\* remote service was not called.
RejectedRequestChangesNothing ==
  Rejected =>
    /\ ~hasFile \/ targetFormat \notin SevenFormats
         \/ selectRow(file.mimetype, targetFormat) = "none"
    /\ DOMAIN files = {}
    /\ inputUnlinks = IF hasFile THEN 1 ELSE 0
    /\ attempts = <<>>
    /\ remoteCalls = <<>>
    /\ imagePaths = <<>>
    /\ logged = <<>>
    /\ Len(responses) = 1
    /\ responses[1].status = 400
    /\ ~responses[1].success

\* an unsupported pair with the remote service configured: refused, the
\* service not called
WitnessUnsupportedPairLeavesNothing ==
  /\ Rejected
  /\ Dispatched
  /\ cloudConvert
  /\ isPdfMime(file.mimetype)
  /\ targetFormat = "PDF"
  /\ remoteCalls = <<>>
  /\ DOMAIN files = {}

(* ---------------------------------------------------------------------- *)
(* The upload page: Home, its handlers and its requests in flight          *)
(* ---------------------------------------------------------------------- *)

\* useState(null) for file and result; a file is named by the order of its
\* selection, 0 stands for null
NoResult == [stored |-> FALSE, file |-> 0, success |-> FALSE]
ResultFor(f, ok) == [stored |-> TRUE, file |-> f, success |-> ok]

UiInit ==
  /\ NoRequest
  /\ textPdf = <<>>
  /\ wordPdf = <<>>
  /\ visitor = <<>>
  /\ downloads = <<>>
  /\ ui = [file |-> 0, status |-> "idle", result |-> NoResult, inFlight |-> {},
           selections |-> 0, clicks |-> 0]

uiFrame == <<jobVars, serverVars, textPdf, wordPdf, visitor, downloads>>

\* handleFileSelect, from the file input or from a drop on the drop zone
handleFileSelect ==
  /\ ui.selections < MaxSelections
  /\ ui' = [ui EXCEPT !.file = ui.selections + 1, !.selections = @ + 1,
                      !.status = "idle", !.result = NoResult]
  /\ UNCHANGED uiFrame

\* handleReset: the remove button is rendered while a file is selected
handleReset ==
  /\ ui.file /= 0
  /\ ui' = [ui EXCEPT !.file = 0, !.status = "idle", !.result = NoResult]
  /\ UNCHANGED uiFrame

\* disabled={!file || status === "uploading" || status === "converting"}
convertDisabled == ui.file = 0 \/ ui.status \in {"uploading", "converting"}

\* handleConvert up to `await fetch("/api/convert", ...)`
handleConvert ==
  /\ ~convertDisabled
  /\ ui.clicks < MaxClicks
  /\ ui' = [ui EXCEPT !.status = "converting", !.clicks = @ + 1,
                      !.inFlight = @ \cup {[file |-> ui.file, click |-> ui.clicks + 1]}]
  /\ UNCHANGED uiFrame

\* handleConvert after the await: the response of request r has arrived, or
\* the fetch has failed
handleResponse ==
  /\ \E r \in ui.inFlight, ok \in BOOLEAN :
       ui' = [ui EXCEPT !.inFlight = @ \ {r},
                        !.status = IF ok THEN "success" ELSE "error",
                        !.result = ResultFor(r.file, ok)]
  /\ UNCHANGED uiFrame

UiNext == handleFileSelect \/ handleReset \/ handleConvert \/ handleResponse

SpecUi == UiInit /\ [][UiNext]_vars

\* C30 as stated: a result shown as success or error belongs to the file
\* that is selected now, and status idle implies that no result is stored.
DisplayedResultBelongsToSelectedFile ==
  /\ (ui.status \in {"success", "error"} /\ ui.result.stored) => ui.result.file = ui.file
  /\ ui.status = "idle" => ~ui.result.stored

====
